---- MODULE Spec2Model ----
(***************************************************************************)
(* A model of camera_project/src/camera/camera_controller.py: the          *)
(* CameraController that drives an IS8502C camera over Telnet (control)    *)
(* and FTP (image retrieval).                                              *)
(*                                                                         *)
(* Text is modelled as a sequence of one-character strings, so that        *)
(* strip/upper/split/slicing are computed the way Python computes them.    *)
(***************************************************************************)
EXTENDS Integers, Sequences, FiniteSets, TLC

VARIABLES
    tn,                      \* self.tn: None or the Telnet handle
    ftp,                     \* self.ftp: None or the FTP handle
    streaming,               \* self.streaming
    paused,                  \* self.paused
    ftp_keep_alive_running,  \* self.ftp_keep_alive_running
    image_queue,             \* self.image_queue, a FIFO of (success, img, msg)
    trigger_count,           \* self.trigger_count
    last_reconnect_time,     \* self.last_reconnect_time
    ftp_session_start_time,  \* self.ftp_session_start_time
    stream_thread,           \* self.stream_thread: None or a loop thread id
    last_capture_time,       \* self.last_capture_time
    now,                     \* the wall clock
    stop_time_obj,           \* self.stop_time_obj: the stop time of day
    call,                    \* the caller's operation: name, inputs, return value
    tn_written,              \* what the caller's operation wrote to Telnet, in order
    ftp_log,                 \* the FTP operations of the caller's operation, in order
    slept,                   \* the delays (ms) the caller's operation slept, in order
    gi,                      \* the get_image frame of each task: position and locals
    loop,                    \* the _stream_loop threads: position and locals
    ka                       \* the keep_alive threads: position

vars == <<tn, ftp, streaming, paused, ftp_keep_alive_running, image_queue,
          trigger_count, last_reconnect_time, ftp_session_start_time,
          stream_thread, last_capture_time, now, stop_time_obj, call, tn_written, ftp_log, slept,
          gi, loop, ka>>

None == "None"
TELNET == "Telnet"
FTP == "FTP"

\* ------------------------------------------------------------------------
\* Bounds of the model
\* ------------------------------------------------------------------------
MaxCmdLen == 6
MaxExtraLines == 6
MaxSerialLen == 3
DayLen == 6     \* clock ticks in a day
MaxDays == 2    \* days the clock covers
MaxRetries == 2 \* largest retries argument of get_image

\* ------------------------------------------------------------------------
\* Python str operations on sequences of one-character strings
\* ------------------------------------------------------------------------
CRLF == "\r\n"
Whitespace == {" ", CRLF}
Letters == {"A", "B", "C", "G", "V", "S", "E", "g", "v"}
Digits == {"0", "1", "2", "4", "5", "8"}

UpperChar(c) == CASE c = "g" -> "G" [] c = "v" -> "V" [] OTHER -> c

Upper(s) == [i \in 1..Len(s) |-> UpperChar(s[i])]

RECURSIVE LStrip(_)
LStrip(s) == IF s # <<>> /\ Head(s) \in Whitespace THEN LStrip(Tail(s)) ELSE s

RECURSIVE RStrip(_)
RStrip(s) ==
    IF s # <<>> /\ s[Len(s)] \in Whitespace
    THEN RStrip(SubSeq(s, 1, Len(s) - 1))
    ELSE s

Strip(s) == RStrip(LStrip(s))

\* s[i:j] with 0-based, end-exclusive indices, clipped as Python clips them
Slice(s, i, j) ==
    LET lo == IF i > Len(s) THEN Len(s) ELSE i
        hi == IF j > Len(s) THEN Len(s) ELSE j
    IN IF hi <= lo THEN <<>> ELSE SubSeq(s, lo + 1, hi)

SliceFrom(s, i) == Slice(s, i, Len(s))

IsAlpha(s) == s # <<>> /\ \A i \in 1..Len(s) : s[i] \in Letters

IsDigit(s) == s # <<>> /\ \A i \in 1..Len(s) : s[i] \in Digits

Contains(s, c) == \E i \in 1..Len(s) : s[i] = c

\* the first whitespace-delimited token of s, <<>> if there is none
RECURSIVE TakeToken(_)
TakeToken(s) ==
    IF s = <<>> \/ Head(s) \in Whitespace THEN <<>>
    ELSE <<Head(s)>> \o TakeToken(Tail(s))

\* s.split(): the whitespace-delimited tokens of s
RECURSIVE Split(_)
Split(s) ==
    LET t == LStrip(s)
        tok == TakeToken(t)
    IN IF t = <<>> THEN <<>>
       ELSE <<tok>> \o Split(SubSeq(t, Len(tok) + 1, Len(t)))

StartsWith(s, p) == Len(s) >= Len(p) /\ SubSeq(s, 1, Len(p)) = p

\* "\n".join(lines)
RECURSIVE Join(_)
Join(lines) ==
    IF lines = <<>> THEN <<>>
    ELSE IF Len(lines) = 1 THEN lines[1]
    ELSE lines[1] \o <<"\n">> \o Join(Tail(lines))

\* an f-string result: the template and the values formatted into it
Msg(fmt, args) == [fmt |-> fmt, args |-> args]

\* ------------------------------------------------------------------------
\* send_native_command (camera_controller.py 220-258)
\* ------------------------------------------------------------------------
EXC == <<"<exception>">>

\* One Telnet exchange as the device and the transport play it: which
\* transport call raises (if any), the raw status line, and the raw lines (or
\* exceptions) the following read_until calls return.  A raw line of <<>> is
\* a read that timed out with nothing received.
ExchangeIO(fail, status, lines) == [fail |-> fail, status |-> status, lines |-> lines]

MaxResponseLines == 5

\* the for-loop of lines 239-246: at most n more reads, starting at lines[k]
RECURSIVE ReadLines(_, _, _)
ReadLines(lines, k, n) ==
    IF n = 0 THEN <<>>
    ELSE LET raw == IF k <= Len(lines) THEN lines[k] ELSE <<>>
         IN IF raw = EXC THEN <<>>
            ELSE IF Strip(raw) = <<>> THEN <<>>
            ELSE <<Strip(raw)>> \o ReadLines(lines, k + 1, n - 1)

\* line 226
CmdBase(command) ==
    IF Contains(command, " ") THEN Split(command)[1] ELSE command

\* line 227
TooShort(command) == command = <<>> \/ Len(CmdBase(command)) < 2

\* lines 230-231
BadGV(command) ==
    /\ CmdBase(command) = <<"G", "V">>
    /\ \/ Len(command) < 5
       \/ ~IsAlpha(Slice(command, 2, 3))
       \/ ~IsDigit(SliceFrom(command, 3))
       \/ Len(SliceFrom(command, 3)) # 3

\* lines 249-256: the return value chosen from the status line
StatusResult_Mut(command, status, response) ==
    IF status = <<"1">>
    THEN <<TRUE, Msg("Command {}: {}", <<command, response>>)>>
    ELSE IF status = <<"0">>
    THEN <<FALSE, Msg("Error: Unrecognized command '{}'", <<command>>)>>
    ELSE IF status = <<"-", "1">>
    THEN <<FALSE, Msg("Error: Command '{}' failed (Status {})", <<command, status>>)>>
    ELSE <<FALSE, Msg("Error: Command '{}' returned unknown status '{}'",
                      <<command, status>>)>>

StatusResult(command, status, response) ==
    IF status = <<"1">>
    THEN <<TRUE, Msg("Command {}: {}", <<command, response>>)>>
    ELSE IF status = <<"0">>
    THEN <<FALSE, Msg("Error: Unrecognized command '{}'", <<command>>)>>
    ELSE IF status \in {<<"-", "1">>, <<"-", "2">>}
    THEN <<FALSE, Msg("Error: Command '{}' failed (Status {})", <<command, status>>)>>
    ELSE <<FALSE, Msg("Error: Command '{}' returned unknown status '{}'",
                      <<command, status>>)>>

\* the whole method: its return value and what it wrote to the transport
send_native_command(tn_, raw_command, io) ==
    LET command == Upper(Strip(raw_command))
        status == Strip(io.status)
        response_lines == <<status>> \o ReadLines(io.lines, 1, MaxResponseLines)
        response == Join(response_lines)
        failed == <<FALSE, Msg("Error: Command '{}' failed: {}", <<command, EXC>>)>>
    IN IF tn_ = None
       THEN [ret |-> <<FALSE, Msg("Error: Not connected to camera", <<>>)>>,
             written |-> <<>>]
       ELSE IF TooShort(command)
       THEN [ret |-> <<FALSE, Msg("Error: Invalid command '{}' (minimum 2 characters)",
                                  <<command>>)>>,
             written |-> <<>>]
       ELSE IF BadGV(command)
       THEN [ret |-> <<FALSE, Msg("Error: Invalid GV command '{}' (expected GV[Column][Row], e.g., GVA005)",
                                  <<command>>)>>,
             written |-> <<>>]
       ELSE IF io.fail \in {"eager1", "write"}
       THEN [ret |-> failed, written |-> <<>>]
       ELSE IF io.fail \in {"status", "eager2"}
       THEN [ret |-> failed, written |-> <<command \o <<CRLF>>>>]
       ELSE [ret |-> StatusResult(command, status, response),
             written |-> <<command \o <<CRLF>>>>]

\* ------------------------------------------------------------------------
\* State after __init__ (lines 39-53); the frames of the tasks are idle
\* ------------------------------------------------------------------------
NoCall == [op |-> "none", arg |-> <<>>, ret |-> <<>>]

InitFlags ==
    /\ streaming = FALSE
    /\ paused = FALSE
    /\ ftp_keep_alive_running = FALSE
    /\ image_queue = <<>>
    /\ trigger_count = 0
    /\ stream_thread = None
    /\ last_capture_time = None

\* the tasks that can run get_image: the caller and the _stream_loop threads
CALLER == "caller"
LoopIds == {"loop1"}
KaIds == {"ka1"}

IdleFrame == [pc |-> "idle", retries |-> 0, attempt |-> 0, ret |-> <<>>]

\* a thread that was never started
NoLoop == [pc |-> "unstarted", stop_datetime |-> 0]
NoKa == [pc |-> "unstarted"]

\* nothing is running: no get_image call, no background thread
InitTasks ==
    /\ gi = [p \in {CALLER} \cup LoopIds |-> IdleFrame]
    /\ loop = [l \in LoopIds |-> NoLoop]
    /\ ka = [k \in KaIds |-> NoKa]
    /\ slept = <<>>

\* lines 51, 53
InitTimes == last_reconnect_time = 0 /\ ftp_session_start_time = 0

InitController == tn = None /\ ftp = None /\ InitFlags /\ InitTimes

controller == <<tn, ftp, streaming, paused, ftp_keep_alive_running, image_queue,
                trigger_count, last_reconnect_time, ftp_session_start_time,
                stream_thread, last_capture_time>>

\* ------------------------------------------------------------------------
\* SpecCmd: one call of send_native_command, over commands and exchanges
\* ------------------------------------------------------------------------
CmdAlphabet == {"g", "v", "A", "0", " "}

Commands == UNION {[1..n -> CmdAlphabet] : n \in 0..MaxCmdLen}

\* commands as the front-end sends them (camera_gui.py 254, 268, 354)
GuiCommands ==
    {<<"G", "V", "A", "0", "0", "5">>, <<"G", "V", "B", "0", "0", "5">>,
     <<"S", "E", "8">>}

RawStatusLines ==
    {<<>>, <<CRLF>>, <<"1", CRLF>>, <<"0", CRLF>>, <<"-", "1", CRLF>>,
     <<"-", "2", CRLF>>, <<"2", CRLF>>, <<"1", "0", CRLF>>, <<" ", "1", CRLF>>}

RawExtraLines == {<<>>, <<"4", "5", ".", "2", CRLF>>, EXC}

ExtraScripts == UNION {[1..n -> RawExtraLines] : n \in 0..MaxExtraLines}

Fails == {"none", "eager1", "write", "status", "eager2"}

\* a few exchanges, for the calls that range over every command
FewExchanges ==
    {ExchangeIO("none", <<"1", CRLF>>, <<<<"4", "5", ".", "2", CRLF>>>>),
     ExchangeIO("none", <<"0", CRLF>>, <<>>),
     ExchangeIO("write", <<>>, <<>>)}

Exchanges ==
    {ExchangeIO(f, st, ls) : f \in Fails, st \in RawStatusLines, ls \in ExtraScripts}

InitCmd ==
    /\ InitFlags
    /\ InitTimes
    /\ tn \in {None, TELNET}
    /\ ftp = None
    /\ now = 0
    /\ call = NoCall
    /\ tn_written = <<>>
    /\ ftp_log = <<>>
    /\ stop_time_obj = 0
    /\ InitTasks

SendNativeCommand(command, io) ==
    LET r == send_native_command(tn, command, io)
    IN /\ call' = [op |-> "send_native_command", arg |-> <<command, io>>, ret |-> r.ret]
       /\ tn_written' = r.written
       /\ UNCHANGED <<controller, now, stop_time_obj, ftp_log, slept, gi, loop, ka>>

SendAnyCommand ==
    /\ call.op = "none"
    /\ \E command \in Commands, io \in FewExchanges : SendNativeCommand(command, io)

SendGuiCommand ==
    /\ call.op = "none"
    /\ \E command \in GuiCommands, io \in Exchanges : SendNativeCommand(command, io)

NextCmd == SendAnyCommand \/ SendGuiCommand

SpecCmd == InitCmd /\ [][NextCmd]_vars

\* --- properties of send_native_command ---------------------------------

ValidationMessages ==
    {"Error: Invalid command '{}' (minimum 2 characters)",
     "Error: Invalid GV command '{}' (expected GV[Column][Row], e.g., GVA005)"}

\* the shape GV + one letter + exactly three digits
GVShape(c) ==
    /\ Len(c) = 6
    /\ c[3] \in Letters
    /\ \A i \in 4..6 : c[i] \in Digits

LeadingToken(c) == IF Split(c) = <<>> THEN <<>> ELSE Split(c)[1]

\* a malformed command: empty, a leading token shorter than 2 characters, or
\* a GV read command that does not have the GV shape
Malformed(raw) ==
    LET c == Upper(Strip(raw))
    IN \/ c = <<>>
       \/ Len(LeadingToken(c)) < 2
       \/ StartsWith(c, <<"G", "V">>) /\ ~GVShape(c)

SentOnLink == call.op = "send_native_command" /\ tn = TELNET

\* C1: every malformed command (empty, leading token shorter than 2
\* characters, or a GV command not of the shape GV + letter + three digits)
\* is answered with a validation failure and nothing is written to the
\* Command Channel transport.
C1_MalformedNeverSent ==
    (SentOnLink /\ Malformed(call.arg[1])) =>
        /\ call.ret[1] = FALSE
        /\ call.ret[2].fmt \in ValidationMessages
        /\ tn_written = <<>>

\* the lines the exchange adds after the status line: the longest run of
\* non-empty lines at the head of the script, at most 5 of them
ExtraRead(lines) ==
    LET good(k) == \A i \in 1..k : lines[i] # EXC /\ Strip(lines[i]) # <<>>
        ks == {k \in 0..Len(lines) : k <= 5 /\ good(k)}
        n == CHOOSE k \in ks : \A j \in ks : j <= k
    IN [i \in 1..n |-> Strip(lines[i])]

\* C2: for a well-formed command on a connected Command Channel whose
\* exchange raises no transport error, the status line alone decides the
\* outcome: "1" is success with the full response text (status line and the
\* extra lines read, at most 5, up to the first empty one), "0" is the
\* unrecognized-command failure, "-1"/"-2" the command-failed failure, and
\* anything else (an empty or timed-out status included) the unknown-status
\* failure.
C2_StatusDecides ==
    (SentOnLink /\ ~Malformed(call.arg[1]) /\ call.arg[2].fail = "none") =>
        LET command == Upper(Strip(call.arg[1]))
            status == Strip(call.arg[2].status)
            text == Join(<<status>> \o ExtraRead(call.arg[2].lines))
        IN /\ tn_written = <<command \o <<CRLF>>>>
           /\ status = <<"1">> =>
                call.ret = <<TRUE, Msg("Command {}: {}", <<command, text>>)>>
           /\ status = <<"0">> =>
                call.ret = <<FALSE, Msg("Error: Unrecognized command '{}'", <<command>>)>>
           /\ status \in {<<"-", "1">>, <<"-", "2">>} =>
                call.ret = <<FALSE, Msg("Error: Command '{}' failed (Status {})",
                                        <<command, status>>)>>
           /\ status \notin {<<"1">>, <<"0">>, <<"-", "1">>, <<"-", "2">>} =>
                call.ret = <<FALSE, Msg("Error: Command '{}' returned unknown status '{}'",
                                        <<command, status>>)>>

\* GVA005 answered "1", "45.2": success, with 45.2 on the second line
C2_Witness ==
    /\ SentOnLink
    /\ call.arg[1] = <<"G", "V", "A", "0", "0", "5">>
    /\ call.arg[2].fail = "none"
    /\ call.ret = <<TRUE, Msg("Command {}: {}",
                              <<<<"G", "V", "A", "0", "0", "5">>,
                                <<"1", "\n", "4", "5", ".", "2">>>>)>>

\* ------------------------------------------------------------------------
\* connect_ftp (camera_controller.py 65-96)
\* ------------------------------------------------------------------------
\* a connect_ftp that keeps the old handle and stamps the time on failure
connect_ftp_Mut(ftp_, lrt, fsst, now_, outcome) ==
    LET teardown == IF ftp_ # None THEN <<"quit", "close">> ELSE <<>>
    IN IF outcome = "ok"
       THEN [ftp |-> FTP, last_reconnect_time |-> now_, ftp_session_start_time |-> now_,
             ret |-> <<TRUE, Msg("FTP connection established", <<>>)>>,
             log |-> teardown \o <<"connect", "login">>]
       ELSE [ftp |-> ftp_, last_reconnect_time |-> now_, ftp_session_start_time |-> fsst,
             ret |-> <<FALSE, Msg("FTP connection error: {}", <<EXC>>)>>,
             log |-> teardown
                     \o (IF outcome = "connect" THEN <<"connect">> ELSE <<"connect", "login">>)
                     \o <<"close">>]

\* outcome: "ok", or the step that raises: "connect" (line 80), "login" (81).
\* Returns the new handle and timestamps, the return value and the FTP
\* operations issued.
connect_ftp(ftp_, lrt, fsst, now_, outcome) ==
    LET teardown == IF ftp_ # None THEN <<"quit", "close">> ELSE <<>>
    IN IF outcome = "ok"
       THEN [ftp |-> FTP, last_reconnect_time |-> now_, ftp_session_start_time |-> now_,
             ret |-> <<TRUE, Msg("FTP connection established", <<>>)>>,
             log |-> teardown \o <<"connect", "login">>]
       ELSE [ftp |-> None, last_reconnect_time |-> lrt, ftp_session_start_time |-> fsst,
             ret |-> <<FALSE, Msg("FTP connection error: {}", <<EXC>>)>>,
             log |-> teardown
                     \o (IF outcome = "connect" THEN <<"connect">> ELSE <<"connect", "login">>)
                     \o <<"close">>]

FtpOutcomes == {"ok", "connect", "login"}

\* ------------------------------------------------------------------------
\* connect (camera_controller.py 98-173)
\* ------------------------------------------------------------------------
InSight == <<"I", "n", "-", "S", "i", "g", "h", "t">>
SerialLabel == <<"S", "e", "r", "i", "a", "l", " ", "N", "u", "m", "b", "e", "r", ":">>
UserLoggedIn == <<"U", "s", "e", "r", " ", "L", "o", "g", "g", "e", "d", " ", "I", "n">>
GI == <<"G", "I">>

\* p in s
RECURSIVE HasSubstring(_, _)
HasSubstring(s, p) ==
    IF Len(s) < Len(p) THEN FALSE
    ELSE StartsWith(s, p) \/ HasSubstring(Tail(s), p)

\* line 104
WelcomeOk_Mut(welcome) == TRUE

WelcomeOk(welcome) == HasSubstring(welcome, InSight)

\* line 126
GIRetries_Mut == 2 + 1

GIRetries == 2

\* line 133
SerialOk_Mut(serial_line) ==
    StartsWith(serial_line, SerialLabel) /\ Len(Split(serial_line)) > 3

SerialOk(serial_line) ==
    StartsWith(serial_line, SerialLabel) /\ Len(Split(serial_line)) > 2

\* One GI attempt as the device plays it: the transport call that raises (if
\* any: "write" 128, "status" 129, "serial" 132, "drain" 136), the raw status
\* line and the raw serial line.
GIAttempt(fail, status, serial) == [fail |-> fail, status |-> status, serial |-> serial]

NoAnswer == GIAttempt("none", <<>>, <<>>)

\* lines 127-153: the verification loop from `attempt` on.  outcome is
\* "accepted" (break), "returned" (an early return, with msg), "exception"
\* (a transport call raised) or "exhausted" (the for loop ran out); writes is
\* the number of times GI was written.
RECURSIVE GIVerify(_, _)
GIVerify(attempt, gis) ==
    IF attempt >= GIRetries
    THEN [outcome |-> "exhausted", msg |-> Msg("", <<>>), writes |-> 0]
    ELSE LET a == IF attempt + 1 <= Len(gis) THEN gis[attempt + 1] ELSE NoAnswer
             gi_response == Strip(a.status)
             serial_line == Strip(a.serial)
             rest == GIVerify(attempt + 1, gis)
             again == [rest EXCEPT !.writes = rest.writes + 1]
             last == attempt >= GIRetries - 1
         IN IF a.fail = "write"
            THEN [outcome |-> "exception", msg |-> Msg("Connection error: {}", <<EXC>>),
                  writes |-> 0]
            ELSE IF a.fail = "status"
            THEN [outcome |-> "exception", msg |-> Msg("Connection error: {}", <<EXC>>),
                  writes |-> 1]
            ELSE IF gi_response = <<"1">>
            THEN IF a.fail = "serial"
                 THEN [outcome |-> "exception", msg |-> Msg("Connection error: {}", <<EXC>>),
                       writes |-> 1]
                 ELSE IF SerialOk(serial_line)
                 THEN IF a.fail = "drain"
                      THEN [outcome |-> "exception",
                            msg |-> Msg("Connection error: {}", <<EXC>>), writes |-> 1]
                      ELSE [outcome |-> "accepted", msg |-> Msg("", <<>>), writes |-> 1]
                 ELSE IF last
                 THEN [outcome |-> "returned", msg |-> Msg("Invalid serial number", <<>>),
                       writes |-> 1]
                 ELSE again
            ELSE IF last
            THEN [outcome |-> "returned",
                  msg |-> Msg("GI verification failed after {} attempts", <<GIRetries>>),
                  writes |-> 1]
            ELSE again

\* One run of connect as the device and the transports play it: the
\* transport call before the GI loop that raises (if any), the raw banner,
\* the raw login response, the GI attempts and the outcome of connect_ftp.
ConnectIO(fail, welcome, response, gis, ftp_outcome) ==
    [fail |-> fail, welcome |-> welcome, response |-> response, gis |-> gis,
     ftp_outcome |-> ftp_outcome]

\* the calls of connect before the GI loop, in order, that may raise
PreSteps ==
    <<"open", "welcome", "user_prompt", "write_user", "password_prompt",
      "write_password", "response", "drain">>

StepNo(step) == CHOOSE i \in 1..Len(PreSteps) : PreSteps[i] = step

\* whether the run gets past `step` without an exception
Passes(io, step) == io.fail = "none" \/ StepNo(io.fail) > StepNo(step)

RepeatGI(n) == [i \in 1..n |-> GI \o <<CRLF>>]

\* the whole method: the new handles and timestamps, the return value, what
\* it wrote to the Telnet transport and the FTP operations issued
connect(tn_, ftp_, lrt, fsst, now_, username, password, io) ==
    LET same == [last_reconnect_time |-> lrt, ftp_session_start_time |-> fsst]
        \* lines 162-173
        except(tn_cur, written) ==
            [tn |-> None, ftp |-> None,
             last_reconnect_time |-> lrt, ftp_session_start_time |-> fsst,
             ret |-> <<FALSE, Msg("Connection error: {}", <<EXC>>)>>,
             written |-> written,
             ftp_log |-> IF ftp_ # None THEN <<"close">> ELSE <<>>]
        return(msg, written) ==
            [tn |-> None, ftp |-> ftp_,
             last_reconnect_time |-> lrt, ftp_session_start_time |-> fsst,
             ret |-> <<FALSE, msg>>, written |-> written, ftp_log |-> <<>>]
        user == username \o <<CRLF>>
        pass == password \o <<CRLF>>
        v == GIVerify(0, io.gis)
        login == <<user, pass>>
        f == connect_ftp(ftp_, lrt, fsst, now_, io.ftp_outcome)
    IN IF ~Passes(io, "open") THEN except(tn_, <<>>)
       ELSE IF ~Passes(io, "welcome") THEN except(TELNET, <<>>)
       ELSE IF ~WelcomeOk(Strip(io.welcome))
       THEN return(Msg("Invalid welcome message", <<>>), <<>>)
       ELSE IF ~Passes(io, "write_user") THEN except(TELNET, <<>>)
       ELSE IF ~Passes(io, "write_password") THEN except(TELNET, <<user>>)
       ELSE IF ~Passes(io, "response") THEN except(TELNET, login)
       ELSE IF ~HasSubstring(Strip(io.response), UserLoggedIn)
       THEN return(Msg("Telnet login failed", <<>>), login)
       ELSE IF ~Passes(io, "drain") THEN except(TELNET, login)
       ELSE IF v.outcome = "exception"
       THEN except(TELNET, login \o RepeatGI(v.writes))
       ELSE IF v.outcome = "returned"
       THEN return(v.msg, login \o RepeatGI(v.writes))
       ELSE [tn |-> IF f.ret[1] THEN TELNET ELSE None,
             ftp |-> f.ftp,
             last_reconnect_time |-> f.last_reconnect_time,
             ftp_session_start_time |-> f.ftp_session_start_time,
             ret |-> IF f.ret[1] THEN <<TRUE, Msg("Connected to camera", <<>>)>>
                     ELSE <<FALSE, f.ret[2]>>,
             written |-> login \o RepeatGI(v.writes),
             ftp_log |-> f.log]

\* ------------------------------------------------------------------------
\* SpecConnect: one call of connect, from a fresh or an already connected
\* controller, over banners, login responses, GI answers and FTP outcomes
\* ------------------------------------------------------------------------
\* config/settings.py 10-11
Username == <<"a", "d", "m", "i", "n">>
Password == <<>>

Banners ==
    {<<>>, InSight \o <<CRLF>>, <<"W", " ">> \o InSight \o <<" ", "8", CRLF>>,
     SubSeq(InSight, 1, Len(InSight) - 1) \o <<CRLF>>,
     <<"L", "o", "g", "i", "n", ":">>}

LoginResponses ==
    {<<>>, UserLoggedIn \o <<CRLF>>, <<CRLF>> \o UserLoggedIn,
     <<"I", "n", "v", "a", "l", "i", "d", CRLF>>}

SerialSuffixes == UNION {[1..n -> {" ", "A", "B"}] : n \in 0..MaxSerialLen}

SerialLines ==
    {pre \o suf \o <<CRLF>> :
        pre \in {SerialLabel, SubSeq(SerialLabel, 1, Len(SerialLabel) - 1),
                 SubSeq(SerialLabel, 1, 6)},
        suf \in SerialSuffixes}

GIStatusLines == {<<>>, <<"1", CRLF>>, <<"0", CRLF>>, <<"1", "1", CRLF>>, <<" ", "1", " ", CRLF>>}

GoodSerial == SerialLabel \o <<" ", "A", " ", "B", CRLF>>

AllAttempts ==
    {GIAttempt("none", st, se) : st \in GIStatusLines, se \in SerialLines}
    \cup {GIAttempt(f, <<"1", CRLF>>, se) :
            f \in {"write", "status", "serial", "drain"},
            se \in {GoodSerial, SerialLabel \o <<CRLF>>}}

FewAttempts ==
    {GIAttempt("none", <<"1", CRLF>>, GoodSerial),
     GIAttempt("none", <<"1", CRLF>>, SerialLabel \o <<CRLF>>),
     GIAttempt("none", <<"0", CRLF>>, <<>>),
     NoAnswer}

GIScripts ==
    {<<a1, a2>> : a1 \in AllAttempts, a2 \in FewAttempts}
    \cup {<<a1, a2>> : a1 \in FewAttempts, a2 \in AllAttempts}

HandshakeScripts ==
    {ConnectIO(f, w, r, <<GIAttempt("none", <<"1", CRLF>>, GoodSerial)>>, "ok") :
        f \in {"none"} \cup {PreSteps[i] : i \in 1..Len(PreSteps)},
        w \in Banners, r \in LoginResponses}

VerifyScripts ==
    {ConnectIO("none", InSight \o <<CRLF>>, UserLoggedIn \o <<CRLF>>, gis, fo) :
        gis \in GIScripts, fo \in FtpOutcomes}

InitConnect ==
    /\ InitFlags
    /\ tn \in {None, TELNET}
    /\ ftp \in {None, FTP}
    /\ last_reconnect_time = (IF ftp = FTP THEN 1 ELSE 0)
    /\ ftp_session_start_time = (IF ftp = FTP THEN 1 ELSE 0)
    /\ now = 2
    /\ call = NoCall
    /\ tn_written = <<>>
    /\ ftp_log = <<>>
    /\ stop_time_obj = 0
    /\ InitTasks

Connect(io) ==
    LET r == connect(tn, ftp, last_reconnect_time, ftp_session_start_time, now,
                     Username, Password, io)
    IN /\ tn' = r.tn
       /\ ftp' = r.ftp
       /\ last_reconnect_time' = r.last_reconnect_time
       /\ ftp_session_start_time' = r.ftp_session_start_time
       /\ call' = [op |-> "connect", arg |-> <<io>>, ret |-> r.ret]
       /\ tn_written' = r.written
       /\ ftp_log' = r.ftp_log
       /\ UNCHANGED <<streaming, paused, ftp_keep_alive_running, image_queue,
                      trigger_count, stream_thread, last_capture_time, now, stop_time_obj, slept,
                      gi, loop, ka>>

ConnectHandshake == call.op = "none" /\ \E io \in HandshakeScripts : Connect(io)

ConnectVerify == call.op = "none" /\ \E io \in VerifyScripts : Connect(io)

NextConnect == ConnectHandshake \/ ConnectVerify

SpecConnect == InitConnect /\ [][NextConnect]_vars

\* --- properties of connect ----------------------------------------------

Connected == call.op = "connect"

IOOf == call.arg[1]

\* the k-th GI answer of the script (a silent device past its end)
Att(k) == IF k >= 1 /\ k <= Len(IOOf.gis) THEN IOOf.gis[k] ELSE NoAnswer

Count(seq, x) == Cardinality({i \in 1..Len(seq) : seq[i] = x})

GIWrites == Count(tn_written, <<"G", "I", CRLF>>)

FtpAttempted == Count(ftp_log, "connect") > 0

BannerHasInSight ==
    \E i \in 1..Len(IOOf.welcome) :
        /\ i + 7 <= Len(IOOf.welcome)
        /\ SubSeq(IOOf.welcome, i, i + 7) = <<"I", "n", "-", "S", "i", "g", "h", "t">>

\* C3: a banner without "In-Sight" makes connect return failure
\* "Invalid welcome message" with the Command Channel handle None, nothing
\* (no login, no GI) written and no Transfer Channel connection attempted.
C3_InvalidBanner ==
    (Connected /\ IOOf.fail \notin {"open", "welcome"} /\ ~BannerHasInSight) =>
        /\ call.ret = <<FALSE, Msg("Invalid welcome message", <<>>)>>
        /\ tn = None
        /\ tn_written = <<>>
        /\ ~FtpAttempted

C3_Witness ==
    /\ Connected
    /\ IOOf.fail = "none"
    /\ IOOf.welcome = <<"I", "n", "-", "S", "i", "g", "h", CRLF>>
    /\ call.ret[2].fmt = "Invalid welcome message"

\* the handshake before the GI loop went through
LoggedIn ==
    /\ Connected
    /\ IOOf.fail = "none"
    /\ BannerHasInSight
    /\ HasSubstring(IOOf.response, UserLoggedIn)

\* a GI attempt, as the code treats it
AttRaises(a) ==
    \/ a.fail \in {"write", "status"}
    \/ /\ Strip(a.status) = <<"1">>
       /\ \/ a.fail = "serial"
          \/ a.fail = "drain" /\ SerialOk(Strip(a.serial))

AttAccepted(a) == ~AttRaises(a) /\ Strip(a.status) = <<"1">> /\ SerialOk(Strip(a.serial))

AttRejected(a) == ~AttRaises(a) /\ ~AttAccepted(a)

\* C4: connect writes GI at most 2 times; it attempts the Transfer Channel
\* connection only after a GI attempt was accepted; and when both attempts
\* are rejected it returns failure with the Command Channel handle None and
\* without a Transfer Channel connection attempt.
C4_GIVerification ==
    Connected =>
        /\ GIWrites <= 2
        /\ FtpAttempted =>
              /\ LoggedIn
              /\ AttAccepted(Att(1)) \/ (AttRejected(Att(1)) /\ AttAccepted(Att(2)))
        /\ (LoggedIn /\ AttRejected(Att(1)) /\ AttRejected(Att(2))) =>
              /\ call.ret[1] = FALSE
              /\ tn = None
              /\ ~FtpAttempted
              /\ GIWrites = 2

C4_Witness ==
    /\ LoggedIn
    /\ AttRejected(Att(1)) /\ AttRejected(Att(2))
    /\ Strip(Att(1).status) = <<"1">>
    /\ GIWrites = 2
    /\ call.ret[1] = FALSE
    /\ tn = None

\* the text of a serial line after the label
AfterLabel(line) == SubSeq(line, Len(<<"S", "e", "r", "i", "a", "l", " ", "N", "u", "m", "b", "e", "r", ":">>) + 1, Len(line))

HasLabel(line) ==
    Len(line) >= Len(<<"S", "e", "r", "i", "a", "l", " ", "N", "u", "m", "b", "e", "r", ":">>) /\ SubSeq(line, 1, Len(<<"S", "e", "r", "i", "a", "l", " ", "N", "u", "m", "b", "e", "r", ":">>)) = <<"S", "e", "r", "i", "a", "l", " ", "N", "u", "m", "b", "e", "r", ":">>

\* the shape of an accepted GI answer as claimed: status exactly "1", the
\* label, and at least two tokens after the label
ClaimedShape(a) ==
    /\ Strip(a.status) = <<"1">>
    /\ HasLabel(Strip(a.serial))
    /\ Len(Split(AfterLabel(Strip(a.serial)))) >= 2

\* the shape the code accepts: status exactly "1", the label, and at least
\* three tokens in the whole line ("Serial", "Number:..." and one more)
CodeShape(a) ==
    /\ Strip(a.status) = <<"1">>
    /\ HasLabel(Strip(a.serial))
    /\ Len(Split(Strip(a.serial))) >= 3

\* C5 as claimed: a GI answer is accepted only with at least two tokens
\* after the label, so "Serial Number: ABC" is rejected.
C5_TwoTokensRequired ==
    (Connected /\ FtpAttempted) => ClaimedShape(Att(GIWrites))

\* C5 as amended: a GI answer is accepted exactly when its status line is "1"
\* and its serial line starts with "Serial Number:" and splits into at
\* least three tokens; one token after the label is enough.
C5_SerialShape ==
    /\ (Connected /\ FtpAttempted) => CodeShape(Att(GIWrites))
    /\ (LoggedIn /\ Att(1).fail = "none") =>
          ((FtpAttempted /\ GIWrites = 1) <=> CodeShape(Att(1)))

\* "Serial Number: A" is accepted at the first attempt
C5_Witness ==
    /\ LoggedIn
    /\ Att(1).fail = "none"
    /\ Strip(Att(1).serial) = <<"S", "e", "r", "i", "a", "l", " ", "N", "u", "m", "b", "e", "r", ":">> \o <<" ", "A">>
    /\ FtpAttempted
    /\ GIWrites = 1
    /\ call.ret = <<TRUE, Msg("Connected to camera", <<>>)>>

\* ------------------------------------------------------------------------
\* _get_next_stop_datetime (camera_controller.py 57-63)
\* ------------------------------------------------------------------------
\* An instant is a number of clock ticks; a day has DayLen ticks; a time of
\* day is a tick in 0..DayLen-1.

\* now.date()
DateOf(t) == t \div DayLen

\* datetime.combine(date, time_of_day)
Combine(d, tod) == d * DayLen + tod

\* timedelta(days=1)
OneDay == DayLen

get_next_stop_datetime_Mut(now_, stop_time) ==
    LET stop_dt == Combine(DateOf(now_), stop_time)
    IN IF now_ > stop_dt THEN stop_dt + OneDay ELSE stop_dt

get_next_stop_datetime(now_, stop_time) ==
    LET stop_dt == Combine(DateOf(now_), stop_time)
    IN IF now_ >= stop_dt THEN stop_dt + OneDay ELSE stop_dt

\* ------------------------------------------------------------------------
\* SpecStop: one call of _get_next_stop_datetime, over current instants and
\* stop times of day
\* ------------------------------------------------------------------------
TimesOfDay == 0..(DayLen - 1)

Instants == 0..(MaxDays * DayLen - 1)

InitStop ==
    /\ InitController
    /\ now \in Instants
    /\ stop_time_obj \in TimesOfDay
    /\ call = NoCall
    /\ tn_written = <<>>
    /\ ftp_log = <<>>
    /\ InitTasks

GetNextStopDatetime ==
    /\ call.op = "none"
    /\ call' = [op |-> "_get_next_stop_datetime", arg |-> <<>>,
                ret |-> get_next_stop_datetime(now, stop_time_obj)]
    /\ UNCHANGED <<controller, now, stop_time_obj, tn_written, ftp_log, slept,
                   gi, loop, ka>>

NextStop == GetNextStopDatetime

SpecStop == InitStop /\ [][NextStop]_vars

\* --- properties of _get_next_stop_datetime ------------------------------

\* the stop time of day on the current day
StopToday == (now \div DayLen) * DayLen + stop_time_obj

\* C7: the stop deadline is never before now; it is today at the stop time
\* if that instant is still to come, otherwise the same time of day on the
\* next day; so it is at most one day after now.
C7_Deadline ==
    call.op = "_get_next_stop_datetime" =>
        /\ call.ret >= now
        /\ StopToday > now => call.ret = StopToday
        /\ StopToday <= now => call.ret = StopToday + DayLen
        /\ call.ret - now <= DayLen
        /\ call.ret % DayLen = stop_time_obj

\* the stop time has passed today: the deadline is on the next day
C7_Witness ==
    /\ call.op = "_get_next_stop_datetime"
    /\ stop_time_obj < now % DayLen
    /\ call.ret \div DayLen = now \div DayLen + 1

\* C33: after a call of connect() that returned failure, whatever the state
\* it started from (a connected controller included), the Telnet handle and
\* the FTP handle are both None.
C33_FailedConnectClearsHandles ==
    (call.op = "connect" /\ call.ret[1] = FALSE) => tn = None /\ ftp = None

\* ------------------------------------------------------------------------
\* get_image (camera_controller.py 282-325), one transport call per step
\* ------------------------------------------------------------------------
\* The frame gi[p] of task p holds the position (pc) and the locals retries
\* and attempt; at "done" ret is the returned (success, img, msg).
\* self.timeout_count (lines 304, 307) only feeds a log line and is left out.
IMG == "img"

\* line 287: for attempt in range(retries + 1)
InRange(attempt, retries) == attempt < retries + 1

NextAttempt_Mut(attempt) == attempt

NextAttempt(attempt) == attempt + 1

\* lines 298, 309, 318: if attempt < retries
CanRetry_Mut(attempt, retries) == attempt <= retries

CanRetry(attempt, retries) == attempt < retries

\* a constant delay of half a second
Backoff_Mut(attempt) == 500 + 0 * attempt

\* lines 299, 313, 322: 0.5 * (2 ** attempt) seconds, in milliseconds
Backoff(attempt) == 500 * 2 ^ attempt

Return(f, ret) == [f EXCEPT !.pc = "done", !.ret = ret]

\* the head of the for loop at `attempt`; line 325 when the range is used up
LoopHead(f, attempt) ==
    IF InRange(attempt, f.retries)
    THEN [f EXCEPT !.pc = "retr", !.attempt = attempt]
    ELSE Return(f, <<FALSE, None,
                     Msg("FTP retrieval failed after {} attempts", <<f.retries + 1>>)>>)

\* a get_image that handles a decode failure like any other exception
AfterFailure_Mut(f, kind) ==
    IF CanRetry(f.attempt, f.retries)
    THEN [f EXCEPT !.pc = "reconnect"]
    ELSE Return(f, <<FALSE, None,
                     Msg("FTP attempt {}: Error: {}", <<f.attempt + 1, EXC>>)>>)

\* the except clauses of lines 306-324 and the decode failure of 296-301
AfterFailure(f, kind) ==
    IF kind = "undecodable"
    THEN IF CanRetry(f.attempt, f.retries)
         THEN [f EXCEPT !.pc = "sleep"]
         ELSE Return(f, <<FALSE, None,
                          Msg("FTP attempt {}: Failed to decode image", <<f.attempt + 1>>)>>)
    ELSE IF CanRetry(f.attempt, f.retries)
    THEN [f EXCEPT !.pc = "reconnect"]
    ELSE IF kind = "timeout"
    THEN Return(f, <<FALSE, None,
                     Msg("FTP timeout after {} attempts: {}", <<f.retries + 1, EXC>>)>>)
    ELSE Return(f, <<FALSE, None,
                     Msg("FTP attempt {}: Error: {}", <<f.attempt + 1, EXC>>)>>)

\* the caller's operations are recorded; the background threads' are not
Logged(p, entries) == IF p = CALLER THEN ftp_log \o entries ELSE ftp_log

Slept(p, ms) == IF p = CALLER THEN Append(slept, ms) ELSE slept

\* how a transport call on self.ftp can end; on a handle that is None it
\* raises AttributeError, which the generic except clause catches
RetrOutcomes == IF ftp = None THEN {"error"} ELSE {"image", "undecodable", "timeout", "error"}

NoopOutcomes == IF ftp = None THEN {"error"} ELSE {"ok", "timeout", "error"}

GI_Begin(p, retries) ==
    gi' = [gi EXCEPT ![p] = [pc |-> "entry", retries |-> retries, attempt |-> 0,
                              ret |-> <<>>]]

\* lines 283-286
GI_Entry(p, outcome) ==
    /\ gi[p].pc = "entry"
    /\ IF ftp = None
       THEN LET f == connect_ftp(ftp, last_reconnect_time, ftp_session_start_time,
                                 now, outcome)
            IN /\ ftp' = f.ftp
               /\ last_reconnect_time' = f.last_reconnect_time
               /\ ftp_session_start_time' = f.ftp_session_start_time
               /\ ftp_log' = Logged(p, f.log)
               /\ gi' = [gi EXCEPT ![p] =
                            IF f.ret[1] THEN LoopHead(@, 0)
                            ELSE Return(@, <<FALSE, None, f.ret[2]>>)]
       ELSE /\ outcome = "ok"
            /\ gi' = [gi EXCEPT ![p] = LoopHead(@, 0)]
            /\ UNCHANGED <<ftp, last_reconnect_time, ftp_session_start_time, ftp_log>>
    /\ UNCHANGED <<tn, streaming, paused, ftp_keep_alive_running, image_queue,
                   trigger_count, stream_thread, last_capture_time, now, stop_time_obj, call,
                   tn_written, slept, loop, ka>>

\* lines 289-301: RETR and decode
GI_Retr(p, outcome) ==
    /\ gi[p].pc = "retr"
    /\ outcome \in RetrOutcomes
    /\ gi' = [gi EXCEPT ![p] =
                 IF outcome = "image" THEN [@ EXCEPT !.pc = "noop"]
                 ELSE AfterFailure(@, outcome)]
    /\ ftp_log' = Logged(p, IF ftp = None THEN <<>> ELSE <<"RETR", outcome>>)
    /\ UNCHANGED <<controller, now, stop_time_obj, call, tn_written, slept, loop, ka>>

\* lines 302-305: NOOP after a decoded image
GI_Noop(p, outcome) ==
    /\ gi[p].pc = "noop"
    /\ outcome \in NoopOutcomes
    /\ gi' = [gi EXCEPT ![p] =
                 IF outcome = "ok"
                 THEN Return(@, <<TRUE, IMG, Msg("Image retrieved ({}x{})", <<IMG>>)>>)
                 ELSE AfterFailure(@, outcome)]
    /\ ftp_log' = Logged(p, IF ftp = None THEN <<>> ELSE <<"NOOP", outcome>>)
    /\ UNCHANGED <<controller, now, stop_time_obj, call, tn_written, slept, loop, ka>>

\* lines 310-312, 319-321: connect_ftp after a transport failure
GI_Reconnect(p, outcome) ==
    /\ gi[p].pc = "reconnect"
    /\ LET f == connect_ftp(ftp, last_reconnect_time, ftp_session_start_time,
                            now, outcome)
       IN /\ ftp' = f.ftp
          /\ last_reconnect_time' = f.last_reconnect_time
          /\ ftp_session_start_time' = f.ftp_session_start_time
          /\ ftp_log' = Logged(p, f.log)
          /\ gi' = [gi EXCEPT ![p] =
                       IF f.ret[1] THEN [@ EXCEPT !.pc = "sleep"]
                       ELSE Return(@, <<FALSE, None, f.ret[2]>>)]
    /\ UNCHANGED <<tn, streaming, paused, ftp_keep_alive_running, image_queue,
                   trigger_count, stream_thread, last_capture_time, now, stop_time_obj, call,
                   tn_written, slept, loop, ka>>

\* lines 299-300, 313-314, 322-323: back off, then the next attempt
GI_Sleep(p) ==
    /\ gi[p].pc = "sleep"
    /\ slept' = Slept(p, Backoff(gi[p].attempt))
    /\ gi' = [gi EXCEPT ![p] = LoopHead(@, NextAttempt(@.attempt))]
    /\ UNCHANGED <<controller, now, stop_time_obj, call, tn_written, ftp_log, loop, ka>>

\* one step of get_image in task p
GI_Step(p) ==
    \/ \E outcome \in FtpOutcomes : GI_Entry(p, outcome)
    \/ \E outcome \in {"image", "undecodable", "timeout", "error"} : GI_Retr(p, outcome)
    \/ \E outcome \in {"ok", "timeout", "error"} : GI_Noop(p, outcome)
    \/ \E outcome \in FtpOutcomes : GI_Reconnect(p, outcome)
    \/ GI_Sleep(p)

\* ------------------------------------------------------------------------
\* SpecGetImage: one call of get_image(retries) by the caller, with or
\* without a session, over every pattern of transport, decode and reconnect
\* outcomes.  The call is not suspended for ever: each transport call and
\* each sleep returns.
\* ------------------------------------------------------------------------
InitGetImage ==
    /\ InitFlags
    /\ tn = TELNET
    /\ ftp \in {None, FTP}
    /\ last_reconnect_time = (IF ftp = FTP THEN 1 ELSE 0)
    /\ ftp_session_start_time = (IF ftp = FTP THEN 1 ELSE 0)
    /\ now = 2
    /\ stop_time_obj = 0
    /\ \E retries \in 0..MaxRetries :
          /\ call = [op |-> "get_image", arg |-> <<retries, ftp>>, ret |-> <<>>]
          /\ gi = [p \in {CALLER} \cup LoopIds |->
                     IF p = CALLER
                     THEN [pc |-> "entry", retries |-> retries, attempt |-> 0,
                           ret |-> <<>>]
                     ELSE IdleFrame]
    /\ tn_written = <<>>
    /\ ftp_log = <<>>
    /\ slept = <<>>
    /\ loop = [l \in LoopIds |-> NoLoop]
    /\ ka = [k \in KaIds |-> NoKa]

NextGetImage == GI_Step(CALLER)

SpecGetImage == InitGetImage /\ [][NextGetImage]_vars /\ WF_vars(NextGetImage)

\* --- properties of get_image --------------------------------------------

GetImageCalled == call.op = "get_image"

RetrAttempts == Count(ftp_log, "RETR")

\* the outcomes of the RETR attempts made so far, in order
RetrResults ==
    LET at == {i \in 1..Len(ftp_log) : ftp_log[i] = "RETR"}
    IN {ftp_log[i + 1] : i \in at}

\* some connect_ftp of the call failed: its connect or its login raised
ReconnectFailed ==
    \E i \in 2..Len(ftp_log) :
        ftp_log[i] = "close" /\ ftp_log[i - 1] \in {"connect", "login"}

Returned ==
    /\ gi[CALLER].pc = "done"
    /\ Len(gi[CALLER].ret) = 3
    /\ gi[CALLER].ret[1] \in BOOLEAN

\* C8: whatever the transport, decode and reconnect outcomes, one call of
\* get_image(retries) with retries >= 0 makes at most retries + 1 RETR
\* attempts, and it ends by returning a (success, image, message) value.
C8_BoundedAttempts ==
    /\ [](GetImageCalled => RetrAttempts <= call.arg[1] + 1)
    /\ <>Returned

\* a call with retries = 2 that used all 3 attempts and returned
C8_Witness ==
    /\ GetImageCalled
    /\ call.arg[1] = 2
    /\ RetrAttempts = 3
    /\ Returned

\* C9: get_image(retries=2) on an existing session whose 3 RETR attempts all
\* time out while every reconnect succeeds returns a failure saying the 3
\* attempts are used up, after exactly 2 reconnects: one after each of the
\* first two timeouts and none after the last.
C9_ThreeTimeouts ==
    (/\ GetImageCalled
     /\ call.arg = <<2, FTP>>
     /\ RetrAttempts = 3
     /\ RetrResults = {"timeout"}
     /\ ~ReconnectFailed) =>
        /\ gi[CALLER].pc = "done"
        /\ gi[CALLER].ret =
              <<FALSE, None, Msg("FTP timeout after {} attempts: {}", <<3, EXC>>)>>
        /\ Count(ftp_log, "connect") = 2
        /\ ftp_log = <<"RETR", "timeout", "quit", "close", "connect", "login",
                       "RETR", "timeout", "quit", "close", "connect", "login",
                       "RETR", "timeout">>

C9_Witness ==
    /\ GetImageCalled
    /\ call.arg = <<2, FTP>>
    /\ RetrAttempts = 3
    /\ RetrResults = {"timeout"}
    /\ ~ReconnectFailed
    /\ gi[CALLER].pc = "done"
    /\ gi[CALLER].ret[1] = FALSE
    /\ Count(ftp_log, "connect") = 2


\* C19: whenever a retrieval attempt of get_image received bytes that decode
\* into a valid image, get_image returns success with that image, whatever
\* the outcome of the NOOP after the transfer and whichever attempt it was.
C19_DecodedImageReturned ==
    (GetImageCalled /\ Returned /\ "image" \in RetrResults) =>
        /\ gi[CALLER].ret[1] = TRUE
        /\ gi[CALLER].ret[2] = IMG

\* the transport calls of the call so far that ended in `kinds`: positions
\* of their RETR or NOOP entry in the log
FailedAt(kinds) ==
    {i \in 1..(Len(ftp_log) - 1) :
        ftp_log[i] \in {"RETR", "NOOP"} /\ ftp_log[i + 1] \in kinds}

\* the FTP operations between the failure logged at i and the next RETR at j
Between(i, j) == SubSeq(ftp_log, i + 2, j - 1)

NextRetr(i, j) ==
    /\ j > i
    /\ ftp_log[j] = "RETR"
    /\ \A k \in (i + 1)..(j - 1) : ftp_log[k] # "RETR"

\* C29: inside get_image a decode failure is never followed by a reconnect,
\* the next attempt retrieves over the same session; a timeout/EOF or other
\* transport exception is followed by a reconnect (tear down, connect, log
\* in) before the next attempt; failures of both kinds together stay within
\* the call's retries + 1 attempts.
C29_DecodeFailureKeepsSession ==
    GetImageCalled =>
        /\ \A i \in FailedAt({"undecodable"}) :
              Len(ftp_log) >= i + 2 => ftp_log[i + 2] = "RETR"
        /\ \A i \in FailedAt({"timeout", "error"}) :
              /\ Len(ftp_log) >= i + 2 => ftp_log[i + 2] = "quit"
              /\ \A j \in 1..Len(ftp_log) :
                    NextRetr(i, j) => Between(i, j) = <<"quit", "close", "connect", "login">>
        /\ RetrAttempts <= call.arg[1] + 1
        /\ (gi[CALLER].pc = "reconnect") => FailedAt({"timeout", "error"}) # {}

\* a call whose first attempt did not decode, whose second timed out and
\* whose third followed the reconnect
C29_Witness ==
    /\ GetImageCalled
    /\ RetrAttempts = 3
    /\ 1 \in FailedAt({"undecodable"})
    /\ 3 \in FailedAt({"timeout"})
    /\ NextRetr(3, 9)
    /\ Returned

\* C31: within one get_image call the delay slept between the failed attempt
\* k (from 0) and attempt k + 1 is 0.5 * 2^k seconds (500 ms, 1000 ms, ...),
\* after a decode failure and after a transport failure alike; every sleep is
\* followed by a further attempt, so none is slept after the final attempt.
C31_BackoffDoubles ==
    GetImageCalled =>
        /\ \A k \in 1..Len(slept) : slept[k] = 500 * 2 ^ (k - 1)
        /\ Len(slept) <= call.arg[1]
        /\ Len(slept) <= RetrAttempts
        /\ Returned => Len(slept) = (IF RetrAttempts = 0 THEN 0 ELSE RetrAttempts - 1)
        /\ (RetrAttempts > 0 /\ gi[CALLER].pc # "retr") => Len(slept) = RetrAttempts - 1

\* three attempts, the first undecodable and the second timed out, with
\* 0.5 s and 1 s slept between them
C31_Witness ==
    /\ GetImageCalled
    /\ Returned
    /\ RetrAttempts = 3
    /\ 1 \in FailedAt({"undecodable"})
    /\ FailedAt({"timeout"}) # {}
    /\ slept = <<500, 1000>>

\* ------------------------------------------------------------------------
\* The controller with its background threads: the caller's operations, the
\* _stream_loop thread and the keep_alive thread
\* ------------------------------------------------------------------------
MaxQueue == 1
MaxTriggers == 1

\* the clock advances in ticks of a day's DayLen-th part
SecondsPerTick == 86400 \div DayLen

\* line 52
reconnect_interval == 600

ghost == <<call, tn_written, ftp_log, slept>>
clock == <<now, stop_time_obj>>

Alive(frame) == frame.pc \notin {"unstarted", "exited"}

\* the caller is between two operations
CallerIdle ==
    /\ ~(call.op \in {"stop", "send_native_command", "pause_streaming"} /\ call.ret = <<>>)
    /\ gi[CALLER].pc = "idle"

Called(op, ret) == [op |-> op, arg |-> <<>>, ret |-> ret]

\* an operation that writes nothing to either transport and does not sleep
Quiet == tn_written' = <<>> /\ ftp_log' = <<>> /\ slept' = <<>>

\* self.image_queue.put(item)
Put(item) ==
    /\ Len(image_queue) < MaxQueue
    /\ image_queue' = Append(image_queue, item)

\* ------------------------------------------------------------------------
\* start_live_stream, pause_streaming, resume_streaming, stop,
\* get_image_from_queue (camera_controller.py 366-432)
\* ------------------------------------------------------------------------
\* lines 367-370, the checks in the other order
StartCheck_Mut(streaming_, tn_, ftp_) ==
    IF tn_ = None \/ ftp_ = None THEN "Not connected to camera"
    ELSE IF streaming_ THEN "Streaming already active"
    ELSE "ok"

\* lines 367-370
StartCheck(streaming_, tn_, ftp_) ==
    IF streaming_ THEN "Streaming already active"
    ELSE IF tn_ = None \/ ftp_ = None THEN "Not connected to camera"
    ELSE "ok"

\* the slot of the next thread object
FreeLoops == {l \in DOMAIN loop : ~Alive(loop[l])}
FreeKas == {k \in DOMAIN ka : ~Alive(ka[k])}
NewLoop == CHOOSE l \in FreeLoops : TRUE
NewKa == CHOOSE k \in FreeKas : TRUE

\* lines 366-379, called as `op` (start_live_stream, or resume_streaming
\* through line 392)
start_live_stream(op) ==
    LET verdict == StartCheck(streaming, tn, ftp)
    IN IF verdict # "ok"
       THEN /\ call' = Called(op, <<FALSE, Msg(verdict, <<>>)>>)
            /\ UNCHANGED <<controller, loop, ka>>
       ELSE /\ FreeLoops # {}
            /\ FreeKas # {}
            /\ streaming' = TRUE
            /\ paused' = FALSE
            /\ last_capture_time' = now
            /\ ftp_keep_alive_running' = TRUE
            /\ stream_thread' = NewLoop
            /\ loop' = [loop EXCEPT ![NewLoop] = [pc |-> "start", stop_datetime |-> 0]]
            /\ ka' = [ka EXCEPT ![NewKa] = [pc |-> "top"]]
            /\ call' = Called(op, <<TRUE, Msg("Streaming started, will stop at time {}",
                                               <<stop_time_obj>>)>>)
            /\ UNCHANGED <<tn, ftp, image_queue, trigger_count, last_reconnect_time,
                           ftp_session_start_time>>

StartLiveStream ==
    /\ CallerIdle
    /\ start_live_stream("start_live_stream")
    /\ Quiet
    /\ UNCHANGED <<clock, gi>>

\* lines 381-387; the call is recorded with the flags it found
PauseStreaming ==
    /\ CallerIdle
    /\ IF ~streaming
       THEN /\ call' = [Called("pause_streaming",
                               <<FALSE, Msg("Streaming not active", <<>>)>>)
                            EXCEPT !.arg = <<streaming, paused>>]
            /\ UNCHANGED <<paused, ftp_keep_alive_running>>
       ELSE /\ paused' = TRUE
            /\ ftp_keep_alive_running' = FALSE
            /\ call' = [Called("pause_streaming", <<TRUE, Msg("Streaming paused", <<>>)>>)
                            EXCEPT !.arg = <<streaming, paused>>]
    /\ UNCHANGED <<tn, ftp, streaming, image_queue, trigger_count, last_reconnect_time,
                   ftp_session_start_time, stream_thread, last_capture_time, clock,
                   gi, loop, ka>>
    /\ Quiet

\* a resume that treats a stream that is not running as an error and keeps
\* the old capture-rate baseline
ResumeStreaming_Mut ==
    /\ CallerIdle
    /\ IF ~streaming
       THEN /\ call' = Called("resume_streaming", <<FALSE, Msg("Streaming not active", <<>>)>>)
            /\ UNCHANGED <<controller, loop, ka>>
       ELSE /\ paused' = FALSE
            /\ call' = Called("resume_streaming", <<TRUE, Msg("Streaming resumed", <<>>)>>)
            /\ UNCHANGED <<tn, ftp, streaming, ftp_keep_alive_running, image_queue,
                           trigger_count, last_reconnect_time, ftp_session_start_time,
                           stream_thread, last_capture_time, loop, ka>>
    /\ Quiet
    /\ UNCHANGED <<clock, gi>>

\* lines 389-396
ResumeStreaming ==
    /\ CallerIdle
    /\ IF ~streaming
       THEN start_live_stream("resume_streaming")
       ELSE /\ paused' = FALSE
            /\ last_capture_time' = now
            /\ call' = Called("resume_streaming", <<TRUE, Msg("Streaming resumed", <<>>)>>)
            /\ UNCHANGED <<tn, ftp, streaming, ftp_keep_alive_running, image_queue,
                           trigger_count, last_reconnect_time, ftp_session_start_time,
                           stream_thread, loop, ka>>
    /\ Quiet
    /\ UNCHANGED <<clock, gi>>

\* lines 399-401: stop clears the flags
StopFlags ==
    /\ CallerIdle
    /\ streaming' = FALSE
    /\ paused' = FALSE
    /\ ftp_keep_alive_running' = FALSE
    /\ call' = Called("stop", <<>>)
    /\ UNCHANGED <<tn, ftp, image_queue, trigger_count, last_reconnect_time,
                   ftp_session_start_time, stream_thread, last_capture_time, clock,
                   gi, loop, ka>>
    /\ Quiet

\* lines 402-404: join(timeout=2) returns when the thread has exited or when
\* the two seconds are over, whichever comes first
StopJoin ==
    /\ call.op = "stop" /\ call.ret = <<>> /\ call.arg = <<>>
    /\ stream_thread' = None
    /\ call' = [call EXCEPT !.arg = <<"joined">>]
    /\ UNCHANGED <<tn, ftp, streaming, paused, ftp_keep_alive_running, image_queue,
                   trigger_count, last_reconnect_time, ftp_session_start_time,
                   last_capture_time, clock, tn_written, ftp_log, slept, gi, loop, ka>>

Stopped == <<TRUE, Msg("Camera stopped and disconnected", <<>>)>>

\* lines 405-422: close both transports and clear the handles; without an
\* FTP session lines 412-423 are skipped and stop returns (424-425)
StopClose ==
    /\ call.op = "stop" /\ call.ret = <<>> /\ call.arg = <<"joined">>
    /\ tn' = None
    /\ ftp' = None
    /\ ftp_log' = (IF ftp # None THEN <<"quit", "close">> ELSE <<>>)
    /\ call' = (IF ftp # None THEN [call EXCEPT !.arg = <<"closed">>]
                ELSE Called("stop", Stopped))
    /\ UNCHANGED <<streaming, paused, ftp_keep_alive_running, image_queue, trigger_count,
                   last_reconnect_time, ftp_session_start_time, stream_thread,
                   last_capture_time, clock, tn_written, slept, gi, loop, ka>>

\* lines 423-425: after the FTP teardown the session start time is cleared
\* and stop returns
StopFinish ==
    /\ call.op = "stop" /\ call.ret = <<>> /\ call.arg = <<"closed">>
    /\ ftp_session_start_time' = 0
    /\ call' = Called("stop", Stopped)
    /\ UNCHANGED <<tn, ftp, streaming, paused, ftp_keep_alive_running, image_queue,
                   trigger_count, last_reconnect_time, stream_thread, last_capture_time,
                   clock, tn_written, ftp_log, slept, gi, loop, ka>>

\* a poll that takes the newest result
GetImageFromQueue_Mut ==
    /\ CallerIdle
    /\ IF image_queue # <<>>
       THEN /\ call' = Called("get_image_from_queue", image_queue[Len(image_queue)])
            /\ image_queue' = SubSeq(image_queue, 1, Len(image_queue) - 1)
       ELSE /\ call' = Called("get_image_from_queue",
                              <<FALSE, None, Msg("No image available", <<>>)>>)
            /\ UNCHANGED image_queue
    /\ UNCHANGED <<tn, ftp, streaming, paused, ftp_keep_alive_running, trigger_count,
                   last_reconnect_time, ftp_session_start_time, stream_thread,
                   last_capture_time, clock, gi, loop, ka>>
    /\ Quiet

\* lines 427-432
GetImageFromQueue ==
    /\ CallerIdle
    /\ IF image_queue # <<>>
       THEN /\ call' = Called("get_image_from_queue", Head(image_queue))
            /\ image_queue' = Tail(image_queue)
       ELSE /\ call' = Called("get_image_from_queue",
                              <<FALSE, None, Msg("No image available", <<>>)>>)
            /\ UNCHANGED image_queue
    /\ UNCHANGED <<tn, ftp, streaming, paused, ftp_keep_alive_running, trigger_count,
                   last_reconnect_time, ftp_session_start_time, stream_thread,
                   last_capture_time, clock, gi, loop, ka>>
    /\ Quiet

\* connect as the application calls it: a device that answers well and an
\* FTP server that accepts, a device with a foreign banner, and an FTP server
\* that refuses
StreamScripts ==
    {ConnectIO("none", InSight \o <<CRLF>>, UserLoggedIn \o <<CRLF>>,
               <<GIAttempt("none", <<"1", CRLF>>, GoodSerial)>>, fo) : fo \in {"ok", "connect"}}
    \cup {ConnectIO("none", <<"L", "o", "g", "i", "n", ":">>, <<>>, <<>>, "ok")}

ConnectCamera ==
    /\ CallerIdle
    /\ \E io \in StreamScripts :
          LET r == connect(tn, ftp, last_reconnect_time, ftp_session_start_time, now,
                           Username, Password, io)
          IN /\ tn' = r.tn
             /\ ftp' = r.ftp
             /\ last_reconnect_time' = r.last_reconnect_time
             /\ ftp_session_start_time' = r.ftp_session_start_time
             /\ call' = Called("connect", r.ret)
             /\ tn_written' = r.written
             /\ ftp_log' = r.ftp_log
    /\ UNCHANGED <<streaming, paused, ftp_keep_alive_running, image_queue, trigger_count,
                   stream_thread, last_capture_time, clock, slept, gi, loop, ka>>

\* ------------------------------------------------------------------------
\* _stream_loop (camera_controller.py 327-364) with trigger_image (260-280),
\* one action per step of a loop thread l
\* ------------------------------------------------------------------------
At(l, pc) == loop[l].pc = pc

Goto(l, pc) == loop' = [loop EXCEPT ![l].pc = pc]

\* lines 329-331
L_Start(l) ==
    /\ At(l, "start")
    /\ trigger_count' = 0
    /\ loop' = [loop EXCEPT ![l] = [pc |-> "top",
                    stop_datetime |-> get_next_stop_datetime(now, stop_time_obj)]]
    /\ UNCHANGED <<tn, ftp, streaming, paused, ftp_keep_alive_running, image_queue,
                   last_reconnect_time, ftp_session_start_time, stream_thread,
                   last_capture_time, clock, ghost, gi, ka>>

\* lines 332-337: the loop condition, the deadline, the pause
L_Top(l) ==
    /\ At(l, "top")
    /\ IF ~streaming THEN Goto(l, "after")
       ELSE IF now >= loop[l].stop_datetime THEN Goto(l, "deadline")
       ELSE IF paused THEN UNCHANGED loop
       ELSE Goto(l, "trig")
    /\ UNCHANGED <<controller, clock, ghost, gi, ka>>

TriggerFailed_Mut(l, msg) ==
    /\ Goto(l, "top")
    /\ UNCHANGED image_queue

\* lines 341-344: a failed trigger is published and the loop goes round
TriggerFailed(l, msg) ==
    /\ Put(<<FALSE, None, msg>>)
    /\ Goto(l, "top")

\* lines 262-265: the Telnet handle, then check_ftp_health (209-218)
L_TrigHealth(l, outcome) ==
    /\ At(l, "trig")
    /\ outcome \in NoopOutcomes
    /\ IF tn = None
       THEN TriggerFailed(l, Msg("Not connected to camera", <<>>))
       ELSE /\ Goto(l, IF outcome = "ok" THEN "trig_write" ELSE "trig_reconnect")
            /\ UNCHANGED image_queue
    /\ UNCHANGED <<tn, ftp, streaming, paused, ftp_keep_alive_running, trigger_count,
                   last_reconnect_time, ftp_session_start_time, stream_thread,
                   last_capture_time, clock, ghost, gi, ka>>

\* lines 266-268
L_TrigReconnect(l, outcome) ==
    /\ At(l, "trig_reconnect")
    /\ LET f == connect_ftp(ftp, last_reconnect_time, ftp_session_start_time, now, outcome)
       IN /\ ftp' = f.ftp
          /\ last_reconnect_time' = f.last_reconnect_time
          /\ ftp_session_start_time' = f.ftp_session_start_time
          /\ IF f.ret[1]
             THEN Goto(l, "trig_write") /\ UNCHANGED image_queue
             ELSE TriggerFailed(l, Msg("FTP reconnect failed: {}", <<f.ret[2]>>))
    /\ UNCHANGED <<tn, streaming, paused, ftp_keep_alive_running, trigger_count,
                   stream_thread, last_capture_time, clock, ghost, gi, ka>>

\* line 271; on a handle that is None the write raises (278-280)
L_TrigWrite(l, raised) ==
    /\ At(l, "trig_write")
    /\ tn = None => raised
    /\ IF raised
       THEN TriggerFailed(l, Msg("Trigger error: {}", <<EXC>>))
       ELSE Goto(l, "trig_read") /\ UNCHANGED image_queue
    /\ UNCHANGED <<tn, ftp, streaming, paused, ftp_keep_alive_running, trigger_count,
                   last_reconnect_time, ftp_session_start_time, stream_thread,
                   last_capture_time, clock, ghost, gi, ka>>

\* what the device answers to SE8
TriggerResponses ==
    {<<"1", CRLF>>, <<"0", CRLF>>, <<"-", "1", CRLF>>, <<"-", "2", CRLF>>, <<>>}

\* line 275
TriggerOk(response) == Contains(response, "1")

\* lines 272-280, then line 345 enters get_image with its default retries
L_TrigRead(l, raised, raw) ==
    /\ At(l, "trig_read")
    /\ tn = None => raised
    /\ IF raised
       THEN TriggerFailed(l, Msg("Trigger error: {}", <<EXC>>)) /\ UNCHANGED gi
       ELSE IF TriggerOk(Strip(raw))
       THEN /\ Goto(l, "get_image")
            /\ GI_Begin(l, 2)
            /\ UNCHANGED image_queue
       ELSE TriggerFailed(l, Msg("Trigger failed", <<>>)) /\ UNCHANGED gi
    /\ UNCHANGED <<tn, ftp, streaming, paused, ftp_keep_alive_running, trigger_count,
                   last_reconnect_time, ftp_session_start_time, stream_thread,
                   last_capture_time, clock, ghost, ka>>

\* how the transports fail while streaming: the FTP server refuses a
\* connection, a transfer delivers an image, bytes that do not decode, or
\* times out, a NOOP is answered or times out
StreamFtpOutcomes == {"ok", "connect"}
StreamRetrOutcomes == {"image", "undecodable", "timeout"}
StreamNoopOutcomes == {"ok", "timeout"}

\* line 345: get_image runs in the loop thread
L_GetImage(l) ==
    /\ At(l, "get_image")
    /\ \/ \E outcome \in StreamFtpOutcomes : GI_Entry(l, outcome)
       \/ \E outcome \in StreamRetrOutcomes : GI_Retr(l, outcome)
       \/ \E outcome \in StreamNoopOutcomes : GI_Noop(l, outcome)
       \/ \E outcome \in StreamFtpOutcomes : GI_Reconnect(l, outcome)
       \/ GI_Sleep(l)

\* a loop that counts every result
L_Publish_Mut(l) ==
    /\ At(l, "get_image")
    /\ gi[l].pc = "done"
    /\ Put(gi[l].ret)
    /\ last_capture_time' = now
    /\ trigger_count < MaxTriggers /\ trigger_count' = trigger_count + 1
    /\ gi' = [gi EXCEPT ![l] = IdleFrame]
    /\ Goto(l, "top")
    /\ UNCHANGED <<tn, ftp, streaming, paused, ftp_keep_alive_running,
                   last_reconnect_time, ftp_session_start_time, stream_thread,
                   clock, ghost, ka>>

\* lines 346-354: publish the result, count a success
L_Publish(l) ==
    /\ At(l, "get_image")
    /\ gi[l].pc = "done"
    /\ Put(gi[l].ret)
    /\ last_capture_time' = now
    /\ IF gi[l].ret[1]
       THEN trigger_count < MaxTriggers /\ trigger_count' = trigger_count + 1
       ELSE UNCHANGED trigger_count
    /\ gi' = [gi EXCEPT ![l] = IdleFrame]
    /\ Goto(l, "top")
    /\ UNCHANGED <<tn, ftp, streaming, paused, ftp_keep_alive_running,
                   last_reconnect_time, ftp_session_start_time, stream_thread,
                   clock, ghost, ka>>

\* a deadline stop that tears the handles down as stop() does
L_After_Mut(l) ==
    /\ At(l, "after") \/ At(l, "deadline")
    /\ IF streaming
       THEN /\ streaming' = FALSE
            /\ paused' = FALSE
            /\ ftp_keep_alive_running' = FALSE
            /\ Put(<<FALSE, None, Msg("Streaming stopped at time {}", <<stop_time_obj>>)>>)
            /\ tn' = None
            /\ ftp' = None
       ELSE UNCHANGED <<tn, ftp, streaming, paused, ftp_keep_alive_running, image_queue>>
    /\ Goto(l, "exited")
    /\ UNCHANGED <<trigger_count, last_reconnect_time, ftp_session_start_time,
                   stream_thread, last_capture_time, clock, ghost, gi, ka>>

\* lines 359-364, reached from the false loop condition (line 332) and from
\* the deadline's break (line 334) alike: the flag read at line 359 decides
\* whether the loop stops the stream itself
L_After(l) ==
    /\ At(l, "after") \/ At(l, "deadline")
    /\ IF streaming
       THEN /\ streaming' = FALSE
            /\ paused' = FALSE
            /\ ftp_keep_alive_running' = FALSE
            /\ Put(<<FALSE, None, Msg("Streaming stopped at time {}", <<stop_time_obj>>)>>)
       ELSE UNCHANGED <<streaming, paused, ftp_keep_alive_running, image_queue>>
    /\ Goto(l, "exited")
    /\ UNCHANGED <<tn, ftp, trigger_count, last_reconnect_time, ftp_session_start_time,
                   stream_thread, last_capture_time, clock, ghost, gi, ka>>

StreamLoop(l) ==
    \/ L_Start(l)
    \/ L_Top(l)
    \/ \E outcome \in StreamNoopOutcomes \cup {"error"} : L_TrigHealth(l, outcome)
    \/ \E outcome \in StreamFtpOutcomes : L_TrigReconnect(l, outcome)
    \/ \E raised \in BOOLEAN : L_TrigWrite(l, raised)
    \/ \E raised \in BOOLEAN, raw \in TriggerResponses : L_TrigRead(l, raised, raw)
    \/ L_GetImage(l)
    \/ L_Publish(l)
    \/ L_After(l)

\* ------------------------------------------------------------------------
\* keep_alive (camera_controller.py 175-207), one action per step of a
\* keep-alive thread k
\* ------------------------------------------------------------------------
KaGoto(k, pc) == ka' = [ka EXCEPT ![k].pc = pc]

\* line 189
ReconnectDue == (now - last_reconnect_time) * SecondsPerTick > reconnect_interval

\* a supervisor that connects when there is no session
K_Top_Mut(k) ==
    /\ ka[k].pc = "top"
    /\ IF ~ftp_keep_alive_running THEN KaGoto(k, "exited")
       ELSE IF ftp = None \/ ReconnectDue THEN KaGoto(k, "reconnect")
       ELSE KaGoto(k, "noop")
    /\ UNCHANGED <<controller, clock, ghost, gi, loop>>

\* lines 176-189: the loop condition, the missing session, the session's age
K_Top(k) ==
    /\ ka[k].pc = "top"
    /\ IF ~ftp_keep_alive_running THEN KaGoto(k, "exited")
       ELSE IF ftp = None THEN UNCHANGED ka
       ELSE IF ReconnectDue THEN KaGoto(k, "reconnect")
       ELSE KaGoto(k, "noop")
    /\ UNCHANGED <<controller, clock, ghost, gi, loop>>

\* lines 190-195: the periodic reconnection
K_Reconnect(k, outcome) ==
    /\ ka[k].pc = "reconnect"
    /\ LET f == connect_ftp(ftp, last_reconnect_time, ftp_session_start_time, now, outcome)
       IN /\ ftp' = f.ftp
          /\ last_reconnect_time' = f.last_reconnect_time
          /\ ftp_session_start_time' = f.ftp_session_start_time
          /\ KaGoto(k, IF f.ret[1] THEN "noop" ELSE "top")
    /\ UNCHANGED <<tn, streaming, paused, ftp_keep_alive_running, image_queue,
                   trigger_count, stream_thread, last_capture_time, clock, ghost, gi, loop>>

\* lines 196-201: NOOP; after a failure the flag decides
K_Noop(k, outcome) ==
    /\ ka[k].pc = "noop"
    /\ outcome \in NoopOutcomes
    /\ KaGoto(k, IF outcome = "ok" THEN "top"
                 ELSE IF ~ftp_keep_alive_running THEN "exited"
                 ELSE "recover")
    /\ UNCHANGED <<controller, clock, ghost, gi, loop>>

\* lines 202-207: reconnect after a failed NOOP, then sleep
K_Recover(k, outcome) ==
    /\ ka[k].pc = "recover"
    /\ LET f == connect_ftp(ftp, last_reconnect_time, ftp_session_start_time, now, outcome)
       IN /\ ftp' = f.ftp
          /\ last_reconnect_time' = f.last_reconnect_time
          /\ ftp_session_start_time' = f.ftp_session_start_time
    /\ KaGoto(k, "top")
    /\ UNCHANGED <<tn, streaming, paused, ftp_keep_alive_running, image_queue,
                   trigger_count, stream_thread, last_capture_time, clock, ghost, gi, loop>>

KeepAlive(k) ==
    \/ K_Top(k)
    \/ \E outcome \in StreamFtpOutcomes : K_Reconnect(k, outcome)
    \/ \E outcome \in StreamNoopOutcomes \cup {"error"} : K_Noop(k, outcome)
    \/ \E outcome \in StreamFtpOutcomes : K_Recover(k, outcome)

\* ------------------------------------------------------------------------
\* Spec: an application that calls the operations in any order, and the
\* threads it starts, within one instant of the clock: the day's stop time has
\* just passed, so every deadline lies a day ahead.  The controller is fresh,
\* or it was connected an instant earlier, so that its FTP session is older
\* than the refresh interval.
\* ------------------------------------------------------------------------
Init ==
    /\ InitFlags
    /\ InitTimes
    /\ \/ tn = None /\ ftp = None
       \/ tn = TELNET /\ ftp = FTP
    /\ now = 1
    /\ stop_time_obj = 1
    /\ call = NoCall
    /\ tn_written = <<>>
    /\ ftp_log = <<>>
    /\ InitTasks

Caller ==
    \/ ConnectCamera
    \/ StartLiveStream
    \/ PauseStreaming
    \/ ResumeStreaming
    \/ StopFlags
    \/ StopJoin
    \/ StopClose
    \/ StopFinish
    \/ GetImageFromQueue

Next ==
    \/ Caller
    \/ \E l \in LoopIds : StreamLoop(l)
    \/ \E k \in KaIds : KeepAlive(k)

Spec == Init /\ [][Next]_vars


\* ------------------------------------------------------------------------
\* Claims on start_live_stream and pause_streaming
\* ------------------------------------------------------------------------
\* a step in which start_live_stream is called and returns
StartCalled == call' # call /\ call'.op = "start_live_stream"

AlreadyActive == <<FALSE, Msg("Streaming already active", <<>>)>>
NotConnected == <<FALSE, Msg("Not connected to camera", <<>>)>>

\* what a failing start_live_stream has to leave alone: the flags, the
\* handles and the background tasks
StartFrame == <<streaming, paused, ftp_keep_alive_running, tn, ftp, stream_thread, loop, ka>>

\* C6 as stated: start_live_stream fails with 'Streaming already active'
\* whenever the stream is running or paused and with 'Not connected to
\* camera' whenever either handle is absent, in both cases starting no task
\* and leaving flags and handles unchanged; it succeeds only from a
\* non-streaming state with both handles present.
C6_AbsentHandleNotConnected ==
    [][StartCalled =>
          /\ streaming => call'.ret = AlreadyActive /\ UNCHANGED StartFrame
          /\ (tn = None \/ ftp = None) => call'.ret = NotConnected /\ UNCHANGED StartFrame
          /\ call'.ret[1] => ~streaming /\ tn # None /\ ftp # None]_vars

\* C6, amended: start_live_stream fails with 'Streaming already active'
\* whenever the stream is running or paused, also when a handle is absent,
\* and with 'Not connected to camera' whenever it is not streaming and either
\* handle is absent; in both cases it starts no task and leaves flags and
\* handles unchanged; it succeeds only from a non-streaming state with both
\* handles present, and then the stream runs unpaused with a loop task and a
\* supervisor started.
C6_StartLiveStream ==
    [][StartCalled =>
          /\ streaming => call'.ret = AlreadyActive /\ UNCHANGED StartFrame
          /\ (~streaming /\ (tn = None \/ ftp = None)) =>
                call'.ret = NotConnected /\ UNCHANGED StartFrame
          /\ call'.ret[1] <=> (~streaming /\ tn # None /\ ftp # None)
          /\ call'.ret[1] =>
                /\ streaming' /\ ~paused' /\ ftp_keep_alive_running'
                /\ stream_thread' \in LoopIds
                /\ loop'[stream_thread'].pc = "start"
                /\ \E k \in KaIds : ~Alive(ka[k]) /\ Alive(ka'[k])
                /\ UNCHANGED <<tn, ftp>>]_vars

\* start_live_stream was called on a running stream whose FTP handle a failed
\* reconnect had cleared, and answered 'Streaming already active'
C6_Witness ==
    /\ call.op = "start_live_stream"
    /\ call.ret = AlreadyActive
    /\ streaming
    /\ ftp = None
    /\ tn # None

\* the caller's last operation is a pause_streaming that returned success
PauseReturned == call.op = "pause_streaming" /\ call.ret # <<>> /\ call.ret[1]

\* C10: after pause_streaming returns success, no new result is published to
\* the queue until resume_streaming is called (here: as long as the caller
\* calls nothing else).
C10_NoPublishWhilePaused ==
    [][(PauseReturned /\ call' = call) => image_queue' = image_queue]_vars

\* a step in which pause_streaming is called and returns
PauseCalled == call' # call /\ call'.op = "pause_streaming"

NotActive == <<FALSE, Msg("Streaming not active", <<>>)>>

\* C11: pause_streaming on a stream that is already paused returns an error
\* outcome and leaves streaming, paused and the supervisor flag unchanged; on
\* a controller that is not streaming it returns 'Streaming not active' and
\* changes no state.
C11_PauseIsNoOpError ==
    [][PauseCalled =>
          /\ (streaming /\ paused) =>
                /\ call'.ret[1] = FALSE
                /\ UNCHANGED <<streaming, paused, ftp_keep_alive_running>>
          /\ ~streaming =>
                /\ call'.ret = NotActive
                /\ UNCHANGED <<controller, gi, loop, ka>>]_vars

\* a step in which stop returns
StopReturned == call.op = "stop" /\ call.ret = <<>> /\ call'.ret # <<>>

\* a stop that is called right after a stop has returned
StopAgain == call.op = "stop" /\ call.ret # <<>> /\ call'.op = "stop" /\ call'.ret = <<>>

\* C12: whatever state stop() is called in, when it returns streaming, paused
\* and the supervisor flag are false and both handles are None, and it
\* returns success; a stop() called right after a stop() changes nothing.
C12_StopTearsDown ==
    [][/\ StopReturned =>
             /\ call'.ret = Stopped
             /\ ~streaming' /\ ~paused' /\ ~ftp_keep_alive_running'
             /\ tn' = None /\ ftp' = None
       /\ StopAgain => UNCHANGED <<controller, gi, loop, ka>>]_vars

\* ------------------------------------------------------------------------
\* Claims on the iterations of _stream_loop
\* ------------------------------------------------------------------------
\* the loop thread is inside trigger_image
InTrigger(frame) == frame.pc \in {"trig", "trig_reconnect", "trig_write", "trig_read"}

\* the messages trigger_image returns with a failure (lines 263, 268, 277, 280)
TriggerFailureMessages ==
    {Msg("Not connected to camera", <<>>),
     Msg("FTP reconnect failed: {}", <<Msg("FTP connection error: {}", <<EXC>>)>>),
     Msg("Trigger failed", <<>>),
     Msg("Trigger error: {}", <<EXC>>)}

\* get_image is running in loop thread l
Retrieving(l) == gi[l].pc # "idle"

\* C13: in every iteration a retrieval is attempted only after the trigger of
\* that iteration has returned success (the step that leaves trigger_image
\* with the device's answer accepted, on a present Telnet handle, publishing
\* nothing); when the trigger fails, exactly one failure result carrying the
\* trigger's message is published, no retrieval is attempted and the loop
\* starts its next iteration.
C13_TriggerBeforeRetrieval ==
    /\ [](\A l \in LoopIds : Retrieving(l) => loop[l].pc = "get_image")
    /\ [][\A l \in LoopIds :
             /\ (~Retrieving(l) /\ Retrieving(l)') =>
                   /\ loop[l].pc = "trig_read" /\ loop'[l].pc = "get_image"
                   /\ tn # None
                   /\ gi'[l].pc = "entry"
                   /\ UNCHANGED image_queue
             /\ (InTrigger(loop[l]) /\ loop'[l].pc = "top") =>
                   /\ \E msg \in TriggerFailureMessages :
                         image_queue' = Append(image_queue, <<FALSE, None, msg>>)
                   /\ ~Retrieving(l)'
                   /\ UNCHANGED <<ftp_log, trigger_count>>
             /\ (InTrigger(loop[l]) /\ loop'[l] # loop[l]) =>
                   \/ loop'[l].pc = "top"
                   \/ loop'[l].pc = "get_image"
                   \/ InTrigger(loop'[l]) /\ UNCHANGED image_queue /\ ~Retrieving(l)']_vars

\* the device answered the trigger with a failure: the failure result is in
\* the queue, the loop is back at the top and no retrieval is running
C13_Witness ==
    /\ image_queue = <<<<FALSE, None, Msg("Trigger failed", <<>>)>>>>
    /\ loop["loop1"].pc = "top"
    /\ ~Retrieving("loop1")
    /\ streaming

\* ------------------------------------------------------------------------
\* Claims on the supervisor
\* ------------------------------------------------------------------------
\* a keep_alive thread is running with its flag set
SupervisorActive == ftp_keep_alive_running /\ \E k \in KaIds : Alive(ka[k])

\* C14: after any sequence of start/pause/resume/stop operations a supervisor
\* task is active exactly when the stream is running and not paused: inactive
\* while paused, and active again after every pause followed by resume.
C14_SupervisorFollowsStream ==
    CallerIdle => (SupervisorActive <=> (streaming /\ ~paused))

\* ------------------------------------------------------------------------
\* SpecShare: the application sends native commands while a stream runs.
\* send_native_command in two steps of the calling thread: up to the write
\* of the command (lines 221-236) and from the read of the status line to
\* the return (lines 237-258)
\* ------------------------------------------------------------------------
CmdInProgress == call.op = "send_native_command" /\ call.ret = <<>>

\* lines 221-236: validation, read_very_eager, write
CmdWrite(command, io) ==
    LET r == send_native_command(tn, command, io)
    IN /\ CallerIdle
       /\ tn_written' = r.written
       /\ call' = [op |-> "send_native_command", arg |-> <<command, io>>,
                   ret |-> IF r.written = <<>> THEN r.ret ELSE <<>>]
       /\ UNCHANGED <<controller, clock, ftp_log, slept, gi, loop, ka>>

\* a send_native_command that drops the Telnet handle when the exchange fails
CmdRead_Mut ==
    /\ CmdInProgress
    /\ LET r == send_native_command(TELNET, call.arg[1], call.arg[2])
       IN /\ call' = [call EXCEPT !.ret = IF tn = None
                                          THEN <<FALSE, Msg("Error: Command '{}' failed: {}",
                                                            <<Upper(Strip(call.arg[1])), EXC>>)>>
                                          ELSE r.ret]
          /\ tn' = IF r.ret[1] THEN tn ELSE None
    /\ UNCHANGED <<ftp, streaming, paused, ftp_keep_alive_running, image_queue,
                   trigger_count, last_reconnect_time, ftp_session_start_time,
                   stream_thread, last_capture_time, clock, tn_written, ftp_log, slept,
                   gi, loop, ka>>

\* lines 237-258: the status line, the further lines, the result
CmdRead ==
    /\ CmdInProgress
    /\ LET r == send_native_command(TELNET, call.arg[1], call.arg[2])
       IN call' = [call EXCEPT !.ret = IF tn = None
                                       THEN <<FALSE, Msg("Error: Command '{}' failed: {}",
                                                         <<Upper(Strip(call.arg[1])), EXC>>)>>
                                       ELSE r.ret]
    /\ UNCHANGED <<controller, clock, tn_written, ftp_log, slept, gi, loop, ka>>

SendCommand ==
    \/ \E command \in GuiCommands, io \in FewExchanges : CmdWrite(command, io)
    \/ CmdRead

InitShare ==
    /\ InitFlags
    /\ InitTimes
    /\ tn = TELNET
    /\ ftp = FTP
    /\ now = 1
    /\ stop_time_obj = 1
    /\ call = NoCall
    /\ tn_written = <<>>
    /\ ftp_log = <<>>
    /\ InitTasks

NextShare ==
    \/ StartLiveStream
    \/ StopFlags
    \/ StopJoin
    \/ StopClose
    \/ StopFinish
    \/ GetImageFromQueue
    \/ SendCommand
    \/ \E l \in LoopIds : StreamLoop(l)

SpecShare == InitShare /\ [][NextShare]_vars

\* the loop thread has written SE8 and waits for its answer (lines 271-272)
TriggerInProgress == \E l \in LoopIds : loop[l].pc = "trig_read"

\* C15: the Telnet handle is never used by two operations at once: no
\* send_native_command exchange of the caller is in progress while the
\* loop's SE8 trigger exchange is in progress on the same handle.
C15_OneExchangeAtATime == ~(CmdInProgress /\ TriggerInProgress)

\* ------------------------------------------------------------------------
\* SpecRestart: the application stops a running stream, connects and starts
\* again.  Each start_live_stream creates new Thread objects (lines 375-378),
\* so a loop thread that outlived stop's join and a second one can both exist.
\* At the start a stream is running: its loop thread is inside the first
\* transfer of get_image (line 292), its supervisor sleeps (line 207).
\* ------------------------------------------------------------------------
RestartLoopIds == {"loop1", "loop2"}
RestartKaIds == {"ka1", "ka2"}

InitRestart ==
    /\ tn = TELNET
    /\ ftp = FTP
    /\ streaming = TRUE
    /\ paused = FALSE
    /\ ftp_keep_alive_running = TRUE
    /\ image_queue = <<>>
    /\ trigger_count = 0
    /\ stream_thread = "loop1"
    /\ InitTimes
    /\ now = 1
    /\ stop_time_obj = 1
    /\ last_capture_time = now
    /\ call = Called("start_live_stream",
                     <<TRUE, Msg("Streaming started, will stop at time {}", <<stop_time_obj>>)>>)
    /\ tn_written = <<>>
    /\ ftp_log = <<>>
    /\ slept = <<>>
    /\ gi = [p \in {CALLER} \cup RestartLoopIds |->
                IF p = "loop1" THEN [IdleFrame EXCEPT !.pc = "retr", !.retries = 2]
                ELSE IdleFrame]
    /\ loop = [l \in RestartLoopIds |->
                  IF l = "loop1"
                  THEN [pc |-> "get_image",
                        stop_datetime |-> get_next_stop_datetime(now, stop_time_obj)]
                  ELSE NoLoop]
    /\ ka = [k \in RestartKaIds |-> IF k = "ka1" THEN [pc |-> "top"] ELSE NoKa]

NextRestart ==
    \/ ConnectCamera
    \/ StartLiveStream
    \/ StopFlags
    \/ StopJoin
    \/ StopClose
    \/ StopFinish
    \/ \E l \in RestartLoopIds : StreamLoop(l)

SpecRestart == InitRestart /\ [][NextRestart]_vars

\* a loop thread is inside a transfer of get_image (lines 289-302)
InFlight(l) == loop[l].pc = "get_image" /\ gi[l].pc \in {"retr", "noop"}

\* C16: at most one image retrieval is in flight on the FTP channel at any
\* time, also after stop() returned with its join timed out, followed by
\* connect() and start_live_stream(): at most one loop thread is executing.
C16_OneRetrievalInFlight == Cardinality({l \in DOMAIN loop : InFlight(l)}) <= 1

\* ------------------------------------------------------------------------
\* Claims on stop and the background threads
\* ------------------------------------------------------------------------
\* the step of stop() that closes both transports (lines 405-422)
ClosingHandles == call.op = "stop" /\ call.ret = <<>> /\ call.arg = <<"joined">> /\ call' # call

\* C17: when stop() closes the Telnet and FTP handles, the loop thread and
\* the supervisor thread have both exited already, so that neither can use a
\* handle that stop has closed or set to None.
C17_ClosedAfterExit ==
    [][ClosingHandles => /\ \A l \in DOMAIN loop : ~Alive(loop[l])
                         /\ \A k \in DOMAIN ka : ~Alive(ka[k])]_vars

\* ------------------------------------------------------------------------
\* SpecDeadline: a stream with a running clock.  The stop time of day is one
\* tick after the start, so that the loop meets its deadline (line 333).
\* Lines 349-350 divide by the time since the last capture: when the clock has
\* not advanced since then, the division can raise, which the except clause
\* of lines 355-358 publishes as a "Stream error".
\* ------------------------------------------------------------------------
MaxNow == 2   \* last instant of the clock

Tick ==
    /\ now < MaxNow
    /\ now' = now + 1
    /\ UNCHANGED <<controller, stop_time_obj, ghost, gi, loop, ka>>

\* lines 346-350 raising at line 350: the result is already on the queue
L_PublishRaised(l) ==
    /\ At(l, "get_image")
    /\ gi[l].pc = "done"
    /\ gi[l].ret[1]
    /\ now = last_capture_time
    /\ Put(gi[l].ret)
    /\ last_capture_time' = now
    /\ gi' = [gi EXCEPT ![l] = IdleFrame]
    /\ Goto(l, "stream_error")
    /\ UNCHANGED <<tn, ftp, streaming, paused, ftp_keep_alive_running, trigger_count,
                   last_reconnect_time, ftp_session_start_time, stream_thread,
                   clock, ghost, ka>>

\* an exception that ends the thread
L_StreamError_Mut(l) ==
    /\ At(l, "stream_error")
    /\ Goto(l, "exited")
    /\ UNCHANGED <<controller, clock, ghost, gi, ka>>

\* lines 355-358: the exception is published and the loop goes round
L_StreamError(l) ==
    /\ At(l, "stream_error")
    /\ Put(<<FALSE, None, Msg("Stream error: {}", <<EXC>>)>>)
    /\ Goto(l, "top")
    /\ UNCHANGED <<tn, ftp, streaming, paused, ftp_keep_alive_running, trigger_count,
                   last_reconnect_time, ftp_session_start_time, stream_thread,
                   last_capture_time, clock, ghost, gi, ka>>

InitDeadline ==
    /\ InitFlags
    /\ InitTimes
    /\ tn = TELNET
    /\ ftp = FTP
    /\ now = 1
    /\ stop_time_obj = 2
    /\ call = NoCall
    /\ tn_written = <<>>
    /\ ftp_log = <<>>
    /\ InitTasks

NextDeadline ==
    \/ StartLiveStream
    \/ StopFlags
    \/ StopJoin
    \/ StopClose
    \/ StopFinish
    \/ GetImageFromQueue
    \/ Tick
    \/ \E l \in LoopIds : StreamLoop(l) \/ L_PublishRaised(l) \/ L_StreamError(l)

SpecDeadline == InitDeadline /\ [][NextDeadline]_vars

\* --- properties ----------------------------------------------------------

\* the thread is past its while loop: the condition was false (line 332), or
\* the deadline broke it (line 334)
LeftWhile(frame) == frame.pc \in {"after", "deadline"}

\* the step of thread l that ends an iteration with a fault: a failing
\* trigger_image, a failing get_image, an exception in the loop body
FaultStep(l) ==
    \/ InTrigger(loop[l]) /\ loop'[l].pc # loop[l].pc /\ ~InTrigger(loop'[l])
                          /\ loop'[l].pc # "get_image"
    \/ loop[l].pc = "get_image" /\ gi[l].pc = "done" /\ ~gi[l].ret[1] /\ loop'[l] # loop[l]
    \/ loop[l].pc = "stream_error" /\ loop'[l] # loop[l]

\* the step appends one failure result
PublishesFailure ==
    /\ Len(image_queue') = Len(image_queue) + 1
    /\ SubSeq(image_queue', 1, Len(image_queue)) = image_queue
    /\ image_queue'[Len(image_queue')][1] = FALSE
    /\ image_queue'[Len(image_queue')][2] = None

\* C18: no fault during streaming (trigger failure, trigger transport error,
\* retrieval failure, failed reconnect, exception in the loop body) ends the
\* loop thread: each is published as a failure result and the loop goes back
\* to its head; the thread leaves the while loop only at its head, because the
\* streaming flag is cleared or because the deadline is reached, and the flag
\* is cleared only by stop() or by the loop that met its deadline.
C18_FaultsDoNotEndLoop ==
    /\ [][\A l \in DOMAIN loop :
            /\ FaultStep(l) => PublishesFailure /\ loop'[l].pc = "top"
            /\ (LeftWhile(loop'[l]) /\ ~LeftWhile(loop[l]))
                  => /\ loop[l].pc = "top"
                     /\ ~streaming \/ now >= loop[l].stop_datetime
            /\ (loop'[l].pc = "exited" /\ loop[l].pc # "exited") => LeftWhile(loop[l])]_vars
    /\ [][(streaming /\ ~streaming')
            => \/ call'.op = "stop" /\ call' # call
               \/ \E l \in DOMAIN loop : LeftWhile(loop[l]) /\ now >= loop[l].stop_datetime]_vars

\* an exception in the loop body was published and the thread is back at the
\* head of its loop, the stream still running
C18_Witness ==
    /\ streaming
    /\ image_queue = <<<<FALSE, None, Msg("Stream error: {}", <<EXC>>)>>>>
    /\ loop["loop1"].pc = "top"

\* ------------------------------------------------------------------------
\* SpecQueue: the result queue between the loop thread and the application.
\* The loop thread is seen from the queue: each of its steps is one
\* self.image_queue.put (lines 342, 346, 357, 364) of a result it can
\* produce; the application polls at any moment.  queue.Queue() (line 43) has
\* no capacity; the model lets at most MaxBacklog results wait.
\* ------------------------------------------------------------------------
MaxBacklog == 3

\* the results the loop publishes
PublishedResults ==
    {<<FALSE, None, Msg("Trigger failed", <<>>)>>,
     <<FALSE, None, Msg("Trigger error: {}", <<EXC>>)>>,
     <<TRUE, IMG, Msg("Image retrieved ({}x{})", <<IMG>>)>>,
     <<FALSE, None, Msg("FTP timeout after {} attempts: {}", <<3, EXC>>)>>,
     <<FALSE, None, Msg("Stream error: {}", <<EXC>>)>>}

\* self.image_queue.put(item) by a running loop thread
QueuePut(item) ==
    /\ \E l \in DOMAIN loop : Alive(loop[l])
    /\ Len(image_queue) < MaxBacklog
    /\ image_queue' = Append(image_queue, item)
    /\ UNCHANGED <<tn, ftp, streaming, paused, ftp_keep_alive_running, trigger_count,
                   last_reconnect_time, ftp_session_start_time, stream_thread,
                   last_capture_time, clock, ghost, gi, loop, ka>>

Publish == \E item \in PublishedResults : QueuePut(item)

\* a stream is running
InitQueue ==
    /\ tn = TELNET
    /\ ftp = FTP
    /\ streaming = TRUE
    /\ paused = FALSE
    /\ ftp_keep_alive_running = TRUE
    /\ image_queue = <<>>
    /\ trigger_count = 0
    /\ stream_thread = "loop1"
    /\ InitTimes
    /\ now = 1
    /\ stop_time_obj = 1
    /\ last_capture_time = now
    /\ call = Called("start_live_stream",
                     <<TRUE, Msg("Streaming started, will stop at time {}", <<stop_time_obj>>)>>)
    /\ tn_written = <<>>
    /\ ftp_log = <<>>
    /\ slept = <<>>
    /\ gi = [p \in {CALLER} \cup LoopIds |-> IdleFrame]
    /\ loop = [l \in LoopIds |->
                  [pc |-> "top", stop_datetime |-> get_next_stop_datetime(now, stop_time_obj)]]
    /\ ka = [k \in KaIds |-> [pc |-> "top"]]

NextQueue == Publish \/ GetImageFromQueue

SpecQueue == InitQueue /\ [][NextQueue]_vars

\* --- properties ----------------------------------------------------------

PollReturned == call'.op = "get_image_from_queue"

NoImage == <<FALSE, None, Msg("No image available", <<>>)>>

C21_PollReturnsLatest ==
    [][(PollReturned /\ call' # call /\ Len(image_queue) >= 2)
          => call'.ret = image_queue[Len(image_queue)]]_vars

\* ------------------------------------------------------------------------
\* SpecResume: start, pause, resume and stop with a running clock.  The stop
\* time of day is one tick after the start, so that a stream also ends by its
\* deadline; the supervisor threads sleep (line 207).
\* ------------------------------------------------------------------------
InitResume ==
    /\ InitFlags
    /\ InitTimes
    /\ tn = TELNET
    /\ ftp = FTP
    /\ now = 1
    /\ stop_time_obj = 2
    /\ call = NoCall
    /\ tn_written = <<>>
    /\ ftp_log = <<>>
    /\ slept = <<>>
    /\ gi = [p \in {CALLER} \cup LoopIds |-> IdleFrame]
    /\ loop = [l \in LoopIds |-> NoLoop]
    /\ ka = [k \in RestartKaIds |-> NoKa]

NextResume ==
    \/ StartLiveStream
    \/ PauseStreaming
    \/ ResumeStreaming
    \/ StopFlags
    \/ StopJoin
    \/ StopClose
    \/ StopFinish
    \/ GetImageFromQueue
    \/ Tick
    \/ \E l \in LoopIds : StreamLoop(l) \/ L_PublishRaised(l) \/ L_StreamError(l)

SpecResume == InitResume /\ [][NextResume]_vars

\* --- properties ----------------------------------------------------------

ResumeCalled == call' # call /\ call'.op = "resume_streaming"

\* what a successful start_live_stream does (lines 371-379)
StartEffect ==
    /\ streaming' /\ ~paused' /\ ftp_keep_alive_running'
    /\ last_capture_time' = now
    /\ stream_thread' \in DOMAIN loop
    /\ ~Alive(loop[stream_thread']) /\ loop'[stream_thread'].pc = "start"
    /\ \E k \in DOMAIN ka : ~Alive(ka[k]) /\ Alive(ka'[k])
    /\ UNCHANGED <<tn, ftp>>

\* C22: resume_streaming on a stream that is not streaming (idle, after
\* stop, after a deadline stop) has the effect and the return value of
\* start_live_stream, its 'Not connected to camera' failure included; on a
\* paused stream it clears the pause flag, sets the capture-rate baseline to
\* now, starts no thread and returns 'Streaming resumed'.
C22_ResumeStartsOrUnpauses ==
    [][ResumeCalled =>
         IF ~streaming
         THEN IF StartCheck(streaming, tn, ftp) = "ok"
              THEN /\ StartEffect
                   /\ call'.ret = <<TRUE, Msg("Streaming started, will stop at time {}",
                                              <<stop_time_obj>>)>>
              ELSE /\ call'.ret = NotConnected
                   /\ UNCHANGED StartFrame
                   /\ UNCHANGED last_capture_time
         ELSE /\ paused' = FALSE
              /\ last_capture_time' = now
              /\ UNCHANGED <<streaming, ftp_keep_alive_running, tn, ftp, stream_thread,
                             loop, ka>>
              /\ call'.ret = <<TRUE, Msg("Streaming resumed", <<>>)>>]_vars

\* after a stream ended by its deadline (its terminal result still waits in
\* the queue), resume_streaming has started a new stream
C22_Witness ==
    /\ call.op = "resume_streaming"
    /\ call.ret = <<TRUE, Msg("Streaming started, will stop at time {}", <<stop_time_obj>>)>>
    /\ image_queue = <<<<FALSE, None, Msg("Streaming stopped at time {}", <<stop_time_obj>>)>>>>
    /\ streaming
    /\ loop["loop1"].pc = "start"

\* a step that appends a success result to the queue
SuccessPublished ==
    /\ Len(image_queue') = Len(image_queue) + 1
    /\ image_queue'[Len(image_queue')][1] = TRUE

\* the first step of a loop thread (lines 329-331)
LoopBegins == \E l \in DOMAIN loop : loop[l].pc = "start" /\ loop'[l].pc = "top"

\* the caller's last operation is a start_live_stream that started a run
StartReturned == call.op = "start_live_stream" /\ call.ret # <<>> /\ call.ret[1]

\* C23 as stated: the counter always equals the number of success results
\* published in the current run.  Right after a start the caller has polled
\* nothing, so a run with no success result in the queue has published none.
C23_CounterEqualsSuccesses ==
    (StartReturned /\ \A i \in 1..Len(image_queue) : ~image_queue[i][1]) => trigger_count = 0

\* C23, amended: the counter is set to zero by the first step of each loop
\* thread; apart from that it changes only by one, in the step that publishes
\* a success result; every success result is counted, except one whose
\* capture-rate computation raises (line 350).
C23_CounterSteps ==
    [][/\ LoopBegins => trigger_count' = 0
       /\ trigger_count' # trigger_count
             => \/ LoopBegins
                \/ SuccessPublished /\ trigger_count' = trigger_count + 1
       /\ SuccessPublished
             => \/ trigger_count' = trigger_count + 1
                \/ /\ trigger_count' = trigger_count
                   /\ \E l \in DOMAIN loop : loop'[l].pc = "stream_error"]_vars

\* a run has counted its one success result, which waits in the queue, after
\* an iteration that was paused
C23_Witness ==
    /\ streaming
    /\ trigger_count = 1
    /\ image_queue = <<<<TRUE, IMG, Msg("Image retrieved ({}x{})", <<IMG>>)>>>>
    /\ loop["loop1"].pc = "top"
    /\ call.op = "resume_streaming"

\* ------------------------------------------------------------------------
\* trigger_image (camera_controller.py 260-280) and check_ftp_health
\* (209-218) as one call
\* ------------------------------------------------------------------------
SE8 == <<"S", "E", "8">>

\* the measured trigger time, a number of milliseconds
TriggerTime == "trigger_time"

\* One call as the transports play it: the outcome of the health check's
\* NOOP, the outcome of connect_ftp if it is called, which Telnet call
\* raises (if any), and the raw line the device answers.
TriggerIO(health, reconnect, fail, response) ==
    [health |-> health, reconnect |-> reconnect, fail |-> fail, response |-> response]

\* a health check that always passes
check_ftp_health_Mut(ftp_, outcome) == TRUE

\* lines 209-218
check_ftp_health(ftp_, outcome) == ftp_ # None /\ outcome = "ok"

\* the whole method: its return value, what it wrote to the Telnet transport,
\* the FTP operations it issued, the handle and the timestamps it leaves
trigger_image(tn_, ftp_, lrt, fsst, now_, io) ==
    LET healthy == check_ftp_health(ftp_, io.health)
        noop == IF ftp_ = None THEN <<>> ELSE <<"NOOP", io.health>>
        f == connect_ftp(ftp_, lrt, fsst, now_, io.reconnect)
        session == IF healthy
                   THEN [ftp |-> ftp_, last_reconnect_time |-> lrt,
                         ftp_session_start_time |-> fsst, log |-> noop]
                   ELSE [ftp |-> f.ftp, last_reconnect_time |-> f.last_reconnect_time,
                         ftp_session_start_time |-> f.ftp_session_start_time,
                         log |-> noop \o f.log]
        Result(ret, written) ==
            [ret |-> ret, written |-> written, ftp |-> session.ftp,
             last_reconnect_time |-> session.last_reconnect_time,
             ftp_session_start_time |-> session.ftp_session_start_time,
             log |-> session.log]
        error == <<FALSE, 0, Msg("Trigger error: {}", <<EXC>>)>>
    IN IF tn_ = None
       THEN [ret |-> <<FALSE, None, Msg("Not connected to camera", <<>>)>>, written |-> <<>>,
             ftp |-> ftp_, last_reconnect_time |-> lrt, ftp_session_start_time |-> fsst,
             log |-> <<>>]
       ELSE IF ~healthy /\ ~f.ret[1]
       THEN Result(<<FALSE, None, Msg("FTP reconnect failed: {}", <<f.ret[2]>>)>>, <<>>)
       ELSE IF io.fail = "write"
       THEN Result(error, <<>>)
       ELSE IF io.fail = "read"
       THEN Result(error, <<SE8 \o <<CRLF>>>>)
       ELSE IF TriggerOk(Strip(io.response))
       THEN Result(<<TRUE, TriggerTime, Msg("Trigger successful", <<>>)>>, <<SE8 \o <<CRLF>>>>)
       ELSE Result(<<FALSE, TriggerTime, Msg("Trigger failed", <<>>)>>, <<SE8 \o <<CRLF>>>>)

\* ------------------------------------------------------------------------
\* SpecTransfer: single calls of trigger_image and of connect_ftp by the
\* caller, with and without the two handles, over the outcomes of the
\* transport calls, as the clock advances.  A call is recorded with the
\* state it found.
\* ------------------------------------------------------------------------
TriggerFails == {"none", "write", "read"}

TriggerIOs ==
    {TriggerIO(h, rc, fl, rs) : h \in {"ok", "timeout", "error"}, rc \in FtpOutcomes,
                                fl \in TriggerFails, rs \in TriggerResponses}

InitTransfer ==
    /\ InitFlags
    /\ tn \in {None, TELNET}
    /\ ftp \in {None, FTP}
    /\ last_reconnect_time = (IF ftp = FTP THEN 1 ELSE 0)
    /\ ftp_session_start_time = (IF ftp = FTP THEN 1 ELSE 0)
    /\ now = 1
    /\ stop_time_obj = 0
    /\ call = NoCall
    /\ tn_written = <<>>
    /\ ftp_log = <<>>
    /\ InitTasks

Before == <<tn, ftp, last_reconnect_time, ftp_session_start_time, now>>

TriggerImage(io) ==
    LET r == trigger_image(tn, ftp, last_reconnect_time, ftp_session_start_time, now, io)
    IN /\ ftp' = r.ftp
       /\ last_reconnect_time' = r.last_reconnect_time
       /\ ftp_session_start_time' = r.ftp_session_start_time
       /\ call' = [op |-> "trigger_image", arg |-> <<io, Before>>, ret |-> r.ret]
       /\ tn_written' = r.written
       /\ ftp_log' = r.log
       /\ UNCHANGED <<tn, streaming, paused, ftp_keep_alive_running, image_queue,
                      trigger_count, stream_thread, last_capture_time, clock, slept,
                      gi, loop, ka>>

ConnectFtp(outcome) ==
    LET f == connect_ftp(ftp, last_reconnect_time, ftp_session_start_time, now, outcome)
    IN /\ ftp' = f.ftp
       /\ last_reconnect_time' = f.last_reconnect_time
       /\ ftp_session_start_time' = f.ftp_session_start_time
       /\ call' = [op |-> "connect_ftp", arg |-> <<outcome, Before>>, ret |-> f.ret]
       /\ tn_written' = <<>>
       /\ ftp_log' = f.log
       /\ UNCHANGED <<tn, streaming, paused, ftp_keep_alive_running, image_queue,
                      trigger_count, stream_thread, last_capture_time, clock, slept,
                      gi, loop, ka>>

NextTransfer ==
    \/ \E io \in TriggerIOs : TriggerImage(io)
    \/ \E outcome \in FtpOutcomes : ConnectFtp(outcome)
    \/ Tick

SpecTransfer == InitTransfer /\ [][NextTransfer]_vars

\* --- properties of trigger_image ----------------------------------------

TriggerCalled == call.op = "trigger_image"

\* the status line the device answered, when the call got to read one
Answered(status) ==
    /\ TriggerCalled
    /\ tn_written # <<>>
    /\ call.arg[1].fail = "none"
    /\ Strip(call.arg[1].response) = status

\* C24: when the device answers SE8 with a failure status ('0', '-1', '-2'),
\* trigger_image reports failure (and the loop, which retrieves only after a
\* successful trigger, attempts no retrieval).
C24_FailureStatusFails ==
    \A status \in {<<"0">>, <<"-", "1">>, <<"-", "2">>} :
        Answered(status) => call.ret[1] = FALSE

\* the call wrote SE8 to the Telnet transport
WroteSE8 == Count(tn_written, SE8 \o <<CRLF>>) > 0

\* the call's first FTP operation was a NOOP that the server accepted
HealthPassed == Len(ftp_log) >= 2 /\ SubSeq(ftp_log, 1, 2) = <<"NOOP", "ok">>

\* the call's last FTP operation was the login of a connect_ftp
ReconnectSucceeded == ftp_log # <<>> /\ ftp_log[Len(ftp_log)] = "login"

\* the call found a session missing or unhealthy and could not replace it
NoSessionToBeHad ==
    /\ call.arg[2][2] = None \/ call.arg[1].health # "ok"
    /\ call.arg[1].reconnect # "ok"

\* C30: trigger_image writes SE8 only after the FTP health check has passed
\* or, when it failed, after a reconnect has succeeded; when the Telnet
\* handle is absent, or the health check fails and the reconnect fails too,
\* nothing is written and a failure is returned.
C30_TriggerAfterHealthySession ==
    TriggerCalled =>
        /\ WroteSE8 => HealthPassed \/ (~HealthPassed /\ ReconnectSucceeded)
        /\ HealthPassed => Count(ftp_log, "connect") = 0
        /\ (call.arg[2][1] = None \/ NoSessionToBeHad)
              => tn_written = <<>> /\ call.ret[1] = FALSE

\* a session that failed its health check was replaced, then SE8 was sent
C30_Witness ==
    /\ TriggerCalled
    /\ call.arg[2][2] # None
    /\ call.arg[1].health = "timeout"
    /\ ReconnectSucceeded
    /\ WroteSE8
    /\ call.ret[1] = TRUE

\* ------------------------------------------------------------------------
\* Claims on the sharing of the FTP handle
\* ------------------------------------------------------------------------
\* a loop thread is inside a transfer, a NOOP or the health check on self.ftp
LoopUsesFtp(l) == InFlight(l) \/ loop[l].pc = "trig"

\* a loop thread is inside connect_ftp (lines 267, 284, 310, 319)
LoopReplacesFtp(l) ==
    \/ loop[l].pc = "trig_reconnect"
    \/ loop[l].pc = "get_image" /\ gi[l].pc = "reconnect"

\* a supervisor thread is inside its NOOP (line 196)
KaUsesFtp(k) == ka[k].pc = "noop"

\* a supervisor thread is inside connect_ftp (lines 191, 204)
KaReplacesFtp(k) == ka[k].pc \in {"reconnect", "recover"}

\* C25: access to the FTP handle is serialized between the loop and the
\* supervisor: in no reachable state is one of them tearing down or replacing
\* the handle (connect_ftp) while the other is in the middle of a retrieval, a
\* health check or a reconnect on it.
C25_FtpSerialized ==
    \A l \in DOMAIN loop, k \in DOMAIN ka :
        /\ ~(KaReplacesFtp(k) /\ (LoopUsesFtp(l) \/ LoopReplacesFtp(l)))
        /\ ~(LoopReplacesFtp(l) /\ KaUsesFtp(k))

\* --- properties of connect_ftp -------------------------------------------

ConnectFtpCalled == call.op = "connect_ftp"

\* the handle and the timestamps the call found
HandleBefore == call.arg[2][2]
ReconnectTimeBefore == call.arg[2][3]
SessionStartBefore == call.arg[2][4]
NowAtCall == call.arg[2][5]

\* the FTP operations of a teardown come first, exactly when a session existed
TornDownFirst ==
    IF HandleBefore # None
    THEN Len(ftp_log) >= 3 /\ SubSeq(ftp_log, 1, 3) = <<"quit", "close", "connect">>
    ELSE ftp_log # <<>> /\ ftp_log[1] = "connect" /\ Count(ftp_log, "quit") = 0

\* C26: connect_ftp first tears down any existing session; on success the
\* handle is a fresh session and session_start_time and last_reconnect_time
\* are both the current time; on failure of any step it returns failure, the
\* handle is None and both timestamps keep their previous values.
C26_ConnectFtp ==
    ConnectFtpCalled =>
        /\ TornDownFirst
        /\ IF call.arg[1] = "ok"
           THEN /\ call.ret[1] = TRUE
                /\ ftp = FTP
                /\ last_reconnect_time = NowAtCall
                /\ ftp_session_start_time = NowAtCall
                /\ ftp_log[Len(ftp_log)] = "login"
           ELSE /\ call.ret[1] = FALSE
                /\ ftp = None
                /\ last_reconnect_time = ReconnectTimeBefore
                /\ ftp_session_start_time = SessionStartBefore
                /\ ftp_log[Len(ftp_log)] = "close"

\* a login that is refused on an existing session, later than that
\* session's start: the session is gone, the timestamps are the old ones
C26_Witness ==
    /\ ConnectFtpCalled
    /\ call.arg[1] = "login"
    /\ HandleBefore = FTP
    /\ NowAtCall = 2
    /\ ftp = None
    /\ last_reconnect_time = 1

\* ------------------------------------------------------------------------
\* Claims on one round of keep_alive
\* ------------------------------------------------------------------------
\* thread k takes a step from pc
KaStepFrom(k, pc) == ka[k].pc = pc /\ ka'[k] # ka[k]

\* the step was one call of connect_ftp
OneConnectFtp ==
    \/ ftp' = FTP /\ last_reconnect_time' = now /\ ftp_session_start_time' = now
    \/ ftp' = None /\ UNCHANGED <<last_reconnect_time, ftp_session_start_time>>

\* C27 as stated: a failed NOOP of the supervisor is always followed by a
\* reconnect attempt in the same round.
C27_FailedNoopReconnects ==
    [][\A k \in DOMAIN ka :
          (KaStepFrom(k, "noop") /\ ka'[k].pc # "top") => ka'[k].pc = "recover"]_vars

\* C27, amended: in each round a running supervisor without a session does
\* nothing; with a session it calls connect_ftp exactly when more than
\* reconnect_interval seconds have passed since last_reconnect_time, and sends
\* a NOOP otherwise or after that reconnect succeeded; a failed NOOP is
\* followed by one connect_ftp and the sleep, unless the supervisor flag has
\* been cleared, in which case the thread ends without reconnecting.
C27_SupervisorRound ==
    [][\A k \in DOMAIN ka :
          /\ KaStepFrom(k, "top") =>
                /\ UNCHANGED <<ftp, last_reconnect_time, ftp_session_start_time>>
                /\ IF ~ftp_keep_alive_running THEN ka'[k].pc = "exited"
                   ELSE /\ ftp # None
                        /\ ka'[k].pc = (IF ReconnectDue THEN "reconnect" ELSE "noop")
          /\ KaStepFrom(k, "reconnect") =>
                /\ OneConnectFtp
                /\ ka'[k].pc = (IF ftp' = FTP THEN "noop" ELSE "top")
          /\ KaStepFrom(k, "noop") =>
                /\ UNCHANGED <<ftp, last_reconnect_time, ftp_session_start_time>>
                /\ \/ ka'[k].pc = "top"
                   \/ ka'[k].pc = "recover" /\ ftp_keep_alive_running
                   \/ ka'[k].pc = "exited" /\ ~ftp_keep_alive_running
          /\ KaStepFrom(k, "recover") => OneConnectFtp /\ ka'[k].pc = "top"]_vars

\* a session that was not due for a reconnect got a NOOP, the NOOP failed,
\* and the running supervisor is about to reconnect
C27_Witness ==
    /\ ka["ka1"].pc = "recover"
    /\ ftp_keep_alive_running
    /\ ftp = FTP
    /\ last_reconnect_time = now

\* ------------------------------------------------------------------------
\* the loop's exit (camera_controller.py 332-334, 359-364)
\* ------------------------------------------------------------------------
TerminalResult == <<FALSE, None, Msg("Streaming stopped at time {}", <<stop_time_obj>>)>>

\* C28: a loop that leaves by the deadline publishes exactly one terminal
\* 'Streaming stopped at time' result and clears the streaming, paused and
\* supervisor flags on its way out; a loop that leaves because the streaming
\* flag was cleared publishes nothing on its way out.
C28_DeadlineExitPublishes ==
    [][\A l \in DOMAIN loop :
          /\ (loop[l].pc = "deadline" /\ loop'[l].pc = "exited")
                => /\ image_queue' = Append(image_queue, TerminalResult)
                   /\ ~streaming' /\ ~paused' /\ ~ftp_keep_alive_running'
          /\ (loop[l].pc = "after" /\ loop'[l].pc = "exited")
                => image_queue' = image_queue]_vars

\* ------------------------------------------------------------------------
\* Tasks that outlive stop() (camera_controller.py 176, 207, 332, 366-379,
\* 398-404)
\* ------------------------------------------------------------------------
AliveLoops == {l \in DOMAIN loop : Alive(loop[l])}

AliveSupervisors == {k \in DOMAIN ka : Alive(ka[k])}

\* C32: the loop and supervisor tasks started before a stop() have exited
\* before tasks of a later start exist, even when the stream is connected and
\* started again right after the stop: at most one acquisition loop task and
\* at most one supervisor task are alive at any time.
C32_OneTaskOfEachKind ==
    /\ Cardinality(AliveLoops) <= 1
    /\ Cardinality(AliveSupervisors) <= 1

\* ------------------------------------------------------------------------
\* SpecPause: pause_streaming in the two steps of the calling thread, the
\* test of the streaming flag (lines 382-383) and the writes of the flags
\* (lines 384-387), next to resume, stop and a loop thread that reaches its
\* deadline.  No lock is held between the two steps.
\* ------------------------------------------------------------------------
PauseInProgress == call.op = "pause_streaming" /\ call.ret = <<>>

\* lines 382-383
PauseCheck ==
    /\ CallerIdle
    /\ call' = [op |-> "pause_streaming", arg |-> <<streaming, paused>>,
                ret |-> IF streaming THEN <<>>
                        ELSE <<FALSE, Msg("Streaming not active", <<>>)>>]
    /\ Quiet
    /\ UNCHANGED <<controller, clock, gi, loop, ka>>

\* lines 384-387
PauseSet ==
    /\ PauseInProgress
    /\ paused' = TRUE
    /\ ftp_keep_alive_running' = FALSE
    /\ call' = [call EXCEPT !.ret = <<TRUE, Msg("Streaming paused", <<>>)>>]
    /\ UNCHANGED <<tn, ftp, streaming, image_queue, trigger_count, last_reconnect_time,
                   ftp_session_start_time, stream_thread, last_capture_time, clock,
                   tn_written, ftp_log, slept, gi, loop, ka>>

NextPause ==
    \/ StartLiveStream
    \/ PauseCheck
    \/ PauseSet
    \/ ResumeStreaming
    \/ StopFlags
    \/ StopJoin
    \/ StopClose
    \/ StopFinish
    \/ GetImageFromQueue
    \/ Tick
    \/ \E l \in LoopIds : StreamLoop(l) \/ L_PublishRaised(l) \/ L_StreamError(l)

SpecPause == InitDeadline /\ [][NextPause]_vars

\* C34: in every reachable state, however pause_streaming, resume_streaming
\* and stop interleave with a loop that reaches its deadline, paused implies
\* streaming, and the supervisor flag implies streaming and not paused.
C34_FlagsConsistent ==
    /\ paused => streaming
    /\ ftp_keep_alive_running => streaming /\ ~paused

\* ------------------------------------------------------------------------
\* After stop() has returned (camera_controller.py 398-425)
\* ------------------------------------------------------------------------
\* stop() was the application's last call and it has returned
StopDone == call.op = "stop" /\ call.ret # <<>>

\* C35: once stop() has returned, and until the application's next call,
\* both handles are and stay None and nothing more is published: no
\* supervisor in the middle of a reconnect and no loop thread that outlived
\* the join re-establishes the FTP session or puts a result on the queue.
C35_QuietAfterStop ==
    [][(StopDone /\ call' = call)
          => /\ tn' = None /\ ftp' = None
             /\ image_queue' = image_queue]_vars

\* ------------------------------------------------------------------------
\* SpecLifecycle: connect, start, resume and stop by the application, next
\* to the loop thread and the clock; a stream can be started again after it
\* has ended
\* ------------------------------------------------------------------------
NextLifecycle ==
    \/ ConnectCamera
    \/ StartLiveStream
    \/ ResumeStreaming
    \/ StopFlags
    \/ StopJoin
    \/ StopClose
    \/ StopFinish
    \/ GetImageFromQueue
    \/ Tick
    \/ \E l \in LoopIds : StreamLoop(l)

SpecLifecycle == InitResume /\ [][NextLifecycle]_vars

\* a step in which start_live_stream or resume_streaming is called
StartAsked ==
    /\ call'.op \in {"start_live_stream", "resume_streaming"}
    /\ call' # call \/ (~streaming /\ streaming')

ConnectSucceeded == call' # call /\ call'.op = "connect" /\ call'.ret[1]

\* the loop thread's last step (lines 359-364)
LoopLeaves == \E l \in DOMAIN loop : LeftWhile(loop[l]) /\ loop'[l].pc = "exited"

\* C36: once stop() has returned the controller is disconnected and idle and
\* stays so until a connect() succeeds; in that state start_live_stream and
\* resume_streaming fail with 'Not connected to camera' and start no task.
\* A loop that stops the stream at its deadline leaves both handles as they
\* are, and start_live_stream on an idle controller that holds both handles
\* succeeds, with no connect() needed.
C36_RestartNeedsHandles ==
    [][/\ StopDone => tn = None /\ ~streaming
       /\ (tn = None /\ ~streaming)
             => \/ tn' = None /\ ~streaming'
                \/ ConnectSucceeded
       /\ (StartAsked /\ tn = None /\ ~streaming)
             => /\ call'.ret = NotConnected
                /\ UNCHANGED <<tn, ftp, streaming, paused, ftp_keep_alive_running,
                               stream_thread, loop, ka>>
       /\ LoopLeaves => UNCHANGED <<tn, ftp>>
       /\ (StartAsked /\ ~streaming /\ tn # None /\ ftp # None)
             => StartEffect /\ call'.ret[1] = TRUE]_vars

\* a stream ended by its deadline (the terminal result still waits in the
\* queue) and start_live_stream has started the next one on the same handles
C36_Witness ==
    /\ call.op = "start_live_stream"
    /\ call.ret # <<>> /\ call.ret[1] = TRUE
    /\ streaming
    /\ image_queue = <<TerminalResult>>
    /\ \E l \in DOMAIN loop : loop[l].pc = "start"
    /\ Cardinality(AliveSupervisors) = 2

\* ------------------------------------------------------------------------
\* Who writes the Telnet handle (camera_controller.py 101-166, 405-410)
\* ------------------------------------------------------------------------
\* a step of send_native_command
CmdStep == call' # call /\ call'.op = "send_native_command"

\* C37: the Telnet handle is changed by connect() and stop() only: no step
\* of send_native_command, of trigger_image, of the loop thread or of the
\* supervisor closes, clears or replaces it, a transport error included; and
\* a step of send_native_command leaves the FTP handle, the streaming, paused
\* and supervisor flags, the trigger counter and the queue as they are,
\* whatever its outcome.
C37_TelnetHandleFrame ==
    [][/\ tn' # tn => call' # call /\ call'.op \in {"connect", "stop"}
       /\ CmdStep => UNCHANGED <<tn, ftp, streaming, paused, ftp_keep_alive_running,
                                 trigger_count, image_queue>>]_vars

\* during a stream that has published a result, a command whose exchange
\* failed or was refused has returned and the handle is still there
C37_Witness ==
    /\ call.op = "send_native_command"
    /\ call.ret # <<>> /\ call.ret[1] = FALSE
    /\ call.arg[2].fail = "write"
    /\ tn = TELNET
    /\ streaming
    /\ image_queue # <<>>

\* ------------------------------------------------------------------------
\* get_image gives up on a failed connect_ftp (camera_controller.py 283-286,
\* 310-312, 319-321)
\* ------------------------------------------------------------------------
ConnectError == <<FALSE, None, Msg("FTP connection error: {}", <<EXC>>)>>

\* get_image of loop thread l has returned the error of a failed connect_ftp
\* and the loop has not yet taken the result
GaveUp(l) == gi[l].pc = "done" /\ gi[l].ret = ConnectError

\* C38: when a connect_ftp inside get_image fails, get_image returns the
\* connect error at once, without a further retrieval, and leaves the FTP
\* handle None; while the stream runs nobody but the loop's next
\* trigger_image re-establishes the session, the supervisor never does: the
\* handle is still None when the loop takes get_image's result.
C38_OnlyTriggerReconnects ==
    [][\A l \in DOMAIN loop :
          /\ (GaveUp(l)' /\ ~GaveUp(l)) => gi[l].pc \in {"entry", "reconnect"} /\ ftp' = None
          /\ (GaveUp(l) /\ streaming /\ ftp = None /\ call' = call) => ftp' = None]_vars

====
